---- MODULE Spec2Model ----
(***************************************************************************)
(* A model of the conversation memory manager (MemoryManager over a        *)
(* key/value store), of the client facade (ChatClient) with its            *)
(* observability hook, and of the memory-aware stream wrapper              *)
(* (memoryAwareStream); of the streams of the provider clients, of the     *)
(* provider adapters over the HTTP clients, and of NewClient.              *)
(*                                                                         *)
(* Text is modelled as a sequence of tokens, so that concatenation         *)
(* (fmt.Sprintf, strings.Builder.WriteString) is \o.                       *)
(* A Message is modelled by its Role and Content; Name, ToolCallID and     *)
(* ToolCalls are carried verbatim by the code and are left out.            *)
(***************************************************************************)
EXTENDS Integers, Sequences, FiniteSets, TLC

VARIABLES
    store,      \* MockKVS.store: key -> stored string
    config,     \* MemoryManager.config
    clock,      \* the value the next time.Now() returns
    appended,   \* history: the messages appended so far, per session
    singly,     \* history: every append so far carried exactly one message
    lastSave,   \* history: the message list handed to the last SaveConversation
    client,     \* ChatClient: whether hook and memory are set
    calls,      \* the facade calls: position and locals of each
    events,     \* the invocations the hook and the provider have seen, in order
    streams,    \* the memoryAwareStream a memory-aware stream call returned
    started,    \* facade calls started so far
    seeds,      \* CreateConversationWithSystemMessage calls made so far
    last,       \* history: the last memory-manager operation that returned
    appenders,  \* concurrent AppendMessages calls: position and locals of each
    provided,   \* the stream a provider's client returned, and what it has done
    outcome,    \* history: the last constructor, adapter or client call and its return
    http        \* the HTTP requests sent to a vendor so far, in order

memVars == <<store, config, clock>>
histVars == <<appended, singly, lastSave>>
clientVars == <<client, calls, events, streams, started, seeds>>
mgrVars == <<last, appenders>>
callVars == <<outcome, http>>
vars == <<store, config, clock, appended, singly, lastSave,
          client, calls, events, streams, started, seeds, last, appenders,
          provided, outcome, http>>

----------------------------------------------------------------------------
(* Bounds *)

\* largest MaxMessages a configuration of the model uses
MaxCap == 5
\* messages appended to one session in a run of the memory manager
MaxAppends == 11
\* messages one AppendMessages call carries
MaxBatch == 2
\* time.Now() advances by one at every call until it reaches MaxTime
MaxTime == 2

Min(a, b) == IF a <= b THEN a ELSE b

\* the value of the i-th time.Now() call made from clock value c on
NowAt(c, i) == Min(c + i - 1, MaxTime)

----------------------------------------------------------------------------
(* Canonical types *)

RoleSystem == "system"
RoleUser == "user"
RoleAssistant == "assistant"
RoleTool == "tool"

Msg(role, content) == [Role |-> role, Content |-> content]

\* the content of the n-th message appended to a session: distinct tags, so
\* that the position of a message in the stored list tells which one it is
Names == <<"S", "A", "B", "C", "D", "E", "F", "G", "H", "I", "J", "K", "L", "M", "N", "O">>
ContentOf(n) == <<Names[n]>>

SessionIDs == {<<"s", "1">>}
KeyPrefix == <<"t", "e", "s", "t">>

\* map[string]any: nil, or a function from the keys present to their values
NilMap == [isNil |-> TRUE, kv |-> <<>>]
EmptyMap == [isNil |-> FALSE, kv |-> <<>>]

----------------------------------------------------------------------------
(* MockKVS and the JSON encoding of a ConversationMemory *)

\* values of a map[string]any: a Go value with its dynamic type
GoString(v) == [t |-> "string", v |-> v]
GoInt(n) == [t |-> "int", v |-> n]
GoFloat64(n) == [t |-> "float64", v |-> n]

\* json.Marshal of a metadata value: a string, or a number whatever its type
MarshalValue(x) ==
    IF x.t = "string" THEN [j |-> "string", v |-> x.v]
                      ELSE [j |-> "number", v |-> x.v]

\* json.Unmarshal into an any: a JSON string gives a string, a JSON number a
\* float64
UnmarshalValue(y) ==
    IF y.j = "string" THEN GoString(y.v) ELSE GoFloat64(y.v)

\* json.Marshal of a ConversationMemory: metadata is omitted when empty
Marshal(conv) ==
    LET base == [session_id |-> conv.SessionID, messages |-> conv.Messages,
                 created_at |-> conv.CreatedAt, updated_at |-> conv.UpdatedAt]
    IN  IF conv.Metadata.isNil \/ DOMAIN conv.Metadata.kv = {}
        THEN base
        ELSE base @@ [metadata |-> [k \in DOMAIN conv.Metadata.kv |->
                                       MarshalValue(conv.Metadata.kv[k])]]

\* the zero value of ConversationMemory, which json.Unmarshal fills in
ZeroConversation ==
    [SessionID |-> <<>>, Messages |-> <<>>, CreatedAt |-> 0, UpdatedAt |-> 0,
     Metadata |-> NilMap]

\* a plausible slip: an undecodable value is taken for an empty document
UnmarshalLenient(val) ==
    IF ~val.isJSON
    THEN [err |-> FALSE, conv |-> ZeroConversation]
    ELSE [err |-> FALSE,
          conv |-> [SessionID |-> val.doc.session_id,
                    Messages |-> val.doc.messages,
                    CreatedAt |-> val.doc.created_at,
                    UpdatedAt |-> val.doc.updated_at,
                    Metadata |-> NilMap]]

\* json.Unmarshal into a zero ConversationMemory: a field the document lacks
\* keeps its zero value; the empty string is not a JSON document
Unmarshal(val) ==
    IF ~val.isJSON
    THEN [err |-> TRUE, conv |-> ZeroConversation]
    ELSE [err |-> FALSE,
          conv |-> [SessionID |-> val.doc.session_id,
                    Messages |-> val.doc.messages,
                    CreatedAt |-> val.doc.created_at,
                    UpdatedAt |-> val.doc.updated_at,
                    Metadata |-> IF "metadata" \in DOMAIN val.doc
                                 THEN [isNil |-> FALSE,
                                       kv |-> [k \in DOMAIN val.doc.metadata |->
                                                 UnmarshalValue(val.doc.metadata[k])]]
                                 ELSE NilMap]]

EmptyString == [isJSON |-> FALSE]
JSONString(doc) == [isJSON |-> TRUE, doc |-> doc]

SetString(st, key, val) ==
    [k \in DOMAIN st \cup {key} |-> IF k = key THEN val ELSE st[k]]

SetAny(st, key, conv) == SetString(st, key, JSONString(Marshal(conv)))

\* GetString fails on a missing key, json.Unmarshal on an undecodable value
GetAny(st, key) ==
    IF key \notin DOMAIN st
    THEN [err |-> TRUE, conv |-> ZeroConversation]
    ELSE Unmarshal(st[key])

----------------------------------------------------------------------------
(* MemoryManager *)

\* no stream of a provider's client is in use
NoProvided ==
    [dialect |-> "none", wire |-> <<>>, body |-> <<>>, bodyClosed |-> FALSE,
     closed |-> FALSE, messageID |-> <<>>, model |-> <<>>,
     recvs |-> 0, closes |-> 0, bodyCloses |-> 0,
     results |-> <<>>, afterClose |-> <<>>, closeResults |-> <<>>]

\* the record of an operation that returned: its name and arguments, the
\* store it started from, and for LoadConversation the result
NoOperation ==
    [op |-> "none", sessionID |-> <<>>, messages |-> <<>>, patch |-> <<>>,
     conversation |-> ZeroConversation, before |-> <<>>, count |-> 0,
     kept |-> FALSE]
Operation(op, sessionID, before) ==
    [NoOperation EXCEPT !.op = op, !.sessionID = sessionID, !.before = before,
                        !.count = last.count + 1, !.kept = TRUE]

\* the record is written only in the specifications whose properties read it
Kept(operation) == IF last.kept THEN operation ELSE last

\* a plausible slip: the session id is left out of the key
buildKeyOfPrefix(sessionID) == KeyPrefix

buildKey(sessionID) == KeyPrefix \o <<":">> \o sessionID

\* the time.Now() calls LoadConversation makes: two when it builds a fresh
\* conversation, none when the stored one decodes
LoadNowCalls(st, sessionID) ==
    IF GetAny(st, buildKey(sessionID)).err THEN 2 ELSE 0

\* a plausible slip: what GetAny left in the variable is returned when it fails
LoadConversationAsDecoded(st, sessionID, c) ==
    GetAny(st, buildKey(sessionID)).conv

\* LoadConversation called when the clock shows c
LoadConversation(st, sessionID, c) ==
    LET r == GetAny(st, buildKey(sessionID))
    IN  IF r.err
        THEN [SessionID |-> sessionID, Messages |-> <<>>,
              CreatedAt |-> NowAt(c, 1), UpdatedAt |-> NowAt(c, 2),
              Metadata |-> EmptyMap]
        ELSE r.conv

IsSystem(m) == m.Role = RoleSystem
IsOther(m) == m.Role # RoleSystem

\* a plausible slip: the range loop puts each system message in front of the
\* system messages it has collected
RECURSIVE PartitionPrepending(_, _, _)
PartitionPrepending(msgs, systemMessages, otherMessages) ==
    IF msgs = <<>>
    THEN [systemMessages |-> systemMessages, otherMessages |-> otherMessages]
    ELSE IF Head(msgs).Role = RoleSystem
         THEN PartitionPrepending(Tail(msgs), <<Head(msgs)>> \o systemMessages,
                                  otherMessages)
         ELSE PartitionPrepending(Tail(msgs), systemMessages,
                                  Append(otherMessages, Head(msgs)))

\* the range loop of SaveConversation that splits the list in two
RECURSIVE Partition(_, _, _)
Partition(msgs, systemMessages, otherMessages) ==
    IF msgs = <<>>
    THEN [systemMessages |-> systemMessages, otherMessages |-> otherMessages]
    ELSE IF Head(msgs).Role = RoleSystem
         THEN Partition(Tail(msgs), Append(systemMessages, Head(msgs)), otherMessages)
         ELSE Partition(Tail(msgs), systemMessages, Append(otherMessages, Head(msgs)))

\* a plausible slip: the oldest messages are kept instead of the most recent
ApplyMessageLimitKeepOldest(maxMessages, msgs) ==
    IF maxMessages > 0 /\ Len(msgs) > maxMessages
    THEN LET p == Partition(msgs, <<>>, <<>>)
             maxOthers == maxMessages - Len(p.systemMessages)
             others == IF maxOthers > 0 /\ Len(p.otherMessages) > maxOthers
                       THEN SubSeq(p.otherMessages, 1, maxOthers)
                       ELSE p.otherMessages
         IN  p.systemMessages \o others
    ELSE msgs

\* a plausible slip: the limit is applied without asking whether it is set
ApplyMessageLimitAlways(maxMessages, msgs) ==
    IF Len(msgs) > maxMessages
    THEN LET p == Partition(msgs, <<>>, <<>>)
             maxOthers == maxMessages - Len(p.systemMessages)
             others == IF maxOthers > 0 /\ Len(p.otherMessages) > maxOthers
                       THEN SubSeq(p.otherMessages,
                                   Len(p.otherMessages) - maxOthers + 1,
                                   Len(p.otherMessages))
                       ELSE p.otherMessages
         IN  p.systemMessages \o others
    ELSE msgs

\* "Apply message limit" of SaveConversation
ApplyMessageLimit(maxMessages, msgs) ==
    IF maxMessages > 0 /\ Len(msgs) > maxMessages
    THEN LET p == Partition(msgs, <<>>, <<>>)
             maxOthers == maxMessages - Len(p.systemMessages)
             others == IF maxOthers > 0 /\ Len(p.otherMessages) > maxOthers
                       THEN SubSeq(p.otherMessages,
                                   Len(p.otherMessages) - maxOthers + 1,
                                   Len(p.otherMessages))
                       ELSE p.otherMessages
         IN  p.systemMessages \o others
    ELSE msgs

\* a plausible slip: the save stamps the creation time too
SavedConversationStamped(conv, now) ==
    [conv EXCEPT !.Messages = ApplyMessageLimit(config.MaxMessages, conv.Messages),
                 !.CreatedAt = now,
                 !.UpdatedAt = now]

\* the conversation SaveConversation writes: limit applied, UpdatedAt set
SavedConversation(conv, now) ==
    [conv EXCEPT !.Messages = ApplyMessageLimit(config.MaxMessages, conv.Messages),
                 !.UpdatedAt = now]

SaveConversation(st, conv, now) ==
    SetAny(st, buildKey(conv.SessionID), SavedConversation(conv, now))

\* GetMessages
GetMessages(st, sessionID) == LoadConversation(st, sessionID, 0).Messages

\* the messages of the next AppendMessages call: fresh contents, any roles
NextMessages(sessionID, roles) ==
    [i \in 1..Len(roles) |->
        Msg(roles[i], ContentOf(Len(appended[sessionID]) + i))]

AppendRoles == {RoleSystem, RoleUser}

\* a plausible slip: the new messages are put in front
GrownInFront(conversation, messages) ==
    [conversation EXCEPT !.Messages = messages \o @]

\* conversation.Messages = append(conversation.Messages, messages...)
Grown(conversation, messages) ==
    [conversation EXCEPT !.Messages = @ \o messages]

\* MemoryManager.AppendMessages run without interruption from store st and
\* clock value c: load, append, save. saved is the list handed to
\* SaveConversation.
AppendMessagesTo(st, sessionID, messages, c) ==
    LET conversation == LoadConversation(st, sessionID, c)
        k == LoadNowCalls(st, sessionID)
        grown == Grown(conversation, messages)
    IN  [store |-> SaveConversation(st, grown, NowAt(c, k + 1)),
         clock |-> NowAt(c, k + 2),
         saved |-> grown.Messages]

\* AppendMessages by a single caller
AppendMessages(sessionID, messages) ==
    /\ Len(messages) >= 1
    /\ Len(appended[sessionID]) + Len(messages) <= MaxAppends
    /\ LET r == AppendMessagesTo(store, sessionID, messages, clock)
       IN  /\ store' = r.store
           /\ clock' = r.clock
           /\ lastSave' = [lastSave EXCEPT ![sessionID] = r.saved]
    /\ appended' = [appended EXCEPT ![sessionID] = @ \o messages]
    /\ singly' = (singly /\ Len(messages) = 1)
    /\ last' = Kept([Operation("AppendMessages", sessionID, store)
                   EXCEPT !.messages = messages])
    /\ UNCHANGED <<config, clientVars, appenders, provided, callVars>>

\* AppendMessage by a single caller: the same with append(messages, message)
AppendMessage(sessionID, message) ==
    /\ Len(appended[sessionID]) + 1 <= MaxAppends
    /\ LET r == AppendMessagesTo(store, sessionID, <<message>>, clock)
       IN  /\ store' = r.store
           /\ clock' = r.clock
           /\ lastSave' = [lastSave EXCEPT ![sessionID] = r.saved]
    /\ appended' = [appended EXCEPT ![sessionID] = Append(@, message)]
    /\ last' = Kept([Operation("AppendMessage", sessionID, store)
                   EXCEPT !.messages = <<message>>])
    /\ UNCHANGED <<config, singly, clientVars, appenders, provided, callVars>>


----------------------------------------------------------------------------
(* ChatClient: the facade, the observability hook and the provider *)

\* concurrent callers of CreateChatCompletion on one client
NCalls == 2
\* Recv calls on one stream
MaxRecv == 3
\* Close calls on one stream
MaxClose == 2
\* CreateConversationWithSystemMessage calls of the single caller
MaxSeeds == 1

\* MemoryConfig.MaxMessages of DefaultMemoryConfig
DefaultMaxMessages == 50
\* the bytes newCallID reads
CallIDBytes == 8

Text(s) == <<s>>

Background == <<>>
NoError == "nil"
ErrProvider == "provider failed"
EOF == "EOF"
ErrRecv == "connection reset"
ErrClose == "close failed"
ErrSetAny == "kvs write failed"

\* no constructor, adapter or client call has returned yet
NoOutcome ==
    [op |-> "none", request |-> <<>>, reply |-> <<>>, err |-> NoError,
     response |-> <<>>, sessionID |-> <<>>, built |-> FALSE]

\* what crypto/rand.Read can do: fail, or fill the buffer
RandomReads ==
    {[ok |-> FALSE, b |-> [i \in 1..CallIDBytes |-> 0]],
     [ok |-> TRUE, b |-> [i \in 1..CallIDBytes |-> 0]],
     [ok |-> TRUE, b |-> [i \in 1..CallIDBytes |-> (16 * i) % 256]],
     [ok |-> TRUE, b |-> [i \in 1..CallIDBytes |-> (1 + 34 * (i - 1)) % 256]]}

HexDigits == <<"0", "1", "2", "3", "4", "5", "6", "7",
               "8", "9", "a", "b", "c", "d", "e", "f">>

\* hex.EncodeToString: two digits per byte, high nibble first
EncodeToString(b) ==
    [j \in 1..(2 * Len(b)) |->
        IF j % 2 = 1 THEN HexDigits[(b[(j + 1) \div 2] \div 16) + 1]
                     ELSE HexDigits[(b[j \div 2] % 16) + 1]]

Unknown == <<"u", "n", "k", "n", "o", "w", "n">>

\* a plausible slip: only the low nibble of each byte is written
newCallIDLowNibbles(r) ==
    IF ~r.ok THEN Unknown ELSE [j \in 1..Len(r.b) |-> HexDigits[(r.b[j] % 16) + 1]]

newCallID(r) == IF ~r.ok THEN Unknown ELSE EncodeToString(r.b)

NilResp == [isNil |-> TRUE, Choices |-> <<>>]
Resp(choices) == [isNil |-> FALSE, Choices |-> choices]
Choice(message) == [Message |-> message]
NilStream == <<>>
NoInfo == [CallID |-> <<>>, ProviderName |-> "", StartTime |-> 0]
ProviderName == "test"

Hello == Msg(RoleAssistant, Text("Hello"))
Other == Msg(RoleAssistant, Text("Or"))
Hi == Msg(RoleUser, Text("Hi"))
More == Msg(RoleUser, Text("More"))
BeBrief == Text("Be brief")

\* req.Messages of the calls
Requests == {<<Hi>>, <<Hi, More>>}

\* what provider.CreateChatCompletion can return
SyncResults ==
    {[resp |-> NilResp, err |-> ErrProvider]}
    \cup {[resp |-> Resp(ch), err |-> NoError] :
            ch \in {<<>>, <<Choice(Hello)>>, <<Choice(Hello), Choice(Other)>>}}

\* what provider.CreateChatCompletionStream can return
StreamResults ==
    {[stream |-> NilStream, err |-> ErrProvider],
     [stream |-> <<"provider">>, err |-> NoError]}

\* a hook that starts a span: BeforeRequest returns a derived context
HookBeforeRequest(ctx, info, sent) == Append(ctx, "span")
\* and WrapStream returns a stream around the one it is given
HookWrapStream(ctx, info, sent, stream) == Append(stream, "hook")

Event(to, op, c, info, ctx, sent, resp, err, stream, outCtx, outStream) ==
    [to |-> to, op |-> op, call |-> c, info |-> info, ctx |-> ctx, sent |-> sent,
     resp |-> resp, err |-> err, stream |-> stream,
     outCtx |-> outCtx, outStream |-> outStream]

IdleCall ==
    [kind |-> "idle", pc |-> "idle", inner |-> "none", mem |-> FALSE,
     sessionID |-> <<>>, req |-> <<>>, sent |-> <<>>,
     info |-> NoInfo, rand |-> <<>>, ctx |-> Background,
     resp |-> NilResp, err |-> NoError, stream |-> NilStream,
     ret |-> [resp |-> NilResp, err |-> NoError, stream |-> NilStream],
     storedBefore |-> <<>>, storedAfter |-> <<>>, saved |-> <<>>,
     saveErr |-> NoError]

NoStream ==
    [exists |-> FALSE, inner |-> NilStream, sessionID |-> <<>>,
     reqMessages |-> <<>>, responseBuffer |-> <<>>, streamClosed |-> FALSE,
     recvs |-> 0, closes |-> 0,
     endedBy |-> "none", sawEOF |-> FALSE, failed |-> 0,
     delivered |-> <<>>, atEnd |-> <<>>,
     saves |-> <<>>, storedAtOpen |-> <<>>, saveErrs |-> 0,
     recvGot |-> <<>>, recvRet |-> <<>>, closeGot |-> <<>>, closeRet |-> <<>>]

Done(c) == calls[c].pc \in {"idle", "done"}
NoCallRunning == \A d \in DOMAIN calls : Done(d)

\* the part of CreateChatCompletion and CreateChatCompletionStream before the
\* provider is called: a fresh LLMCallInfo, then the hook's BeforeRequest
BeginCall(call, r) ==
    LET info == [CallID |-> newCallID(r), ProviderName |-> ProviderName,
                 StartTime |-> NowAt(clock, 1)]
    IN  [call EXCEPT !.pc = "provider", !.info = info, !.rand = <<r>>,
                     !.ctx = IF client.hasHook
                             THEN HookBeforeRequest(call.ctx, info, call.sent)
                             ELSE call.ctx]

\* a plausible slip: the hook is not told that the call begins
BeginEventsUnobserved(c, call, r) == events

\* the hook's record of BeforeRequest
BeginEvents(c, call, r) ==
    LET begun == BeginCall(call, r)
    IN  IF client.hasHook
        THEN Append(events,
                    Event("hook", "BeforeRequest", c, begun.info, call.ctx, call.sent,
                          NilResp, NoError, NilStream, begun.ctx, NilStream))
        ELSE events

\* ChatClient.CreateChatCompletion, up to the provider call
CreateChatCompletion(c, req, r) ==
    /\ calls[c].pc = "idle"
    /\ LET call == [IdleCall EXCEPT !.kind = "CreateChatCompletion",
                                    !.inner = "sync", !.req = req, !.sent = req]
       IN  /\ calls' = [calls EXCEPT ![c] = BeginCall(call, r)]
           /\ events' = BeginEvents(c, call, r)
    /\ clock' = NowAt(clock, 2)
    /\ started' = started + 1
    /\ UNCHANGED <<store, config, histVars, client, streams, seeds, mgrVars, provided, callVars>>

\* ChatClient.CreateChatCompletionStream, up to the provider call
CreateChatCompletionStream(c, req, r) ==
    /\ calls[c].pc = "idle"
    /\ LET call == [IdleCall EXCEPT !.kind = "CreateChatCompletionStream",
                                    !.inner = "stream", !.req = req, !.sent = req]
       IN  /\ calls' = [calls EXCEPT ![c] = BeginCall(call, r)]
           /\ events' = BeginEvents(c, call, r)
    /\ clock' = NowAt(clock, 2)
    /\ started' = started + 1
    /\ UNCHANGED <<store, config, histVars, client, streams, seeds, mgrVars, provided, callVars>>

\* a plausible slip: the stored messages are left out of the request
MergedMessagesNewOnly(conversation, req) == req

\* allMessages := append(conversation.Messages, req.Messages...)
MergedMessages(conversation, req) == conversation.Messages \o req
\* messagesToSave := append(req.Messages, response.Choices[0].Message)
MessagesToSave(req, resp) == Append(req, resp.Choices[1].Message)

\* a plausible slip: the client takes itself to have memory in every case
HasMemoryAlways == TRUE

\* ChatClient.HasMemory
HasMemory == client.hasMemory

\* ChatClient.CreateChatCompletionWithMemory, up to the call of the client's
\* own CreateChatCompletion; without memory it is CreateChatCompletion
CreateChatCompletionWithMemory(c, sessionID, req, r) ==
    /\ calls[c].pc = "idle"
    /\ LET conversation == LoadConversation(store, sessionID, clock)
           call == [IdleCall EXCEPT !.kind = "CreateChatCompletionWithMemory",
                                    !.inner = "sync", !.sessionID = sessionID,
                                    !.req = req]
       IN  IF ~HasMemory
           THEN LET plain == [call EXCEPT !.sent = req]
                IN  /\ calls' = [calls EXCEPT ![c] = BeginCall(plain, r)]
                    /\ events' = BeginEvents(c, plain, r)
                    /\ clock' = NowAt(clock, 2)
           ELSE /\ calls' = [calls EXCEPT ![c] =
                       [call EXCEPT !.pc = "before", !.mem = TRUE,
                                    !.sent = MergedMessages(conversation, req),
                                    !.storedBefore = conversation.Messages]]
                /\ events' = events
                /\ clock' = NowAt(clock, LoadNowCalls(store, sessionID) + 1)
    /\ started' = started + 1
    /\ UNCHANGED <<store, config, histVars, client, streams, seeds, mgrVars, provided, callVars>>

\* ChatClient.CreateChatCompletionStreamWithMemory, up to the call of the
\* client's own CreateChatCompletionStream
CreateChatCompletionStreamWithMemory(c, sessionID, req, r) ==
    /\ calls[c].pc = "idle"
    /\ LET conversation == LoadConversation(store, sessionID, clock)
           call == [IdleCall EXCEPT !.kind = "CreateChatCompletionStreamWithMemory",
                                    !.inner = "stream", !.sessionID = sessionID,
                                    !.req = req]
       IN  IF ~HasMemory
           THEN LET plain == [call EXCEPT !.sent = req]
                IN  /\ calls' = [calls EXCEPT ![c] = BeginCall(plain, r)]
                    /\ events' = BeginEvents(c, plain, r)
                    /\ clock' = NowAt(clock, 2)
           ELSE /\ calls' = [calls EXCEPT ![c] =
                       [call EXCEPT !.pc = "before", !.mem = TRUE,
                                    !.sent = MergedMessages(conversation, req),
                                    !.storedBefore = conversation.Messages]]
                /\ events' = events
                /\ clock' = NowAt(clock, LoadNowCalls(store, sessionID) + 1)
    /\ started' = started + 1
    /\ UNCHANGED <<store, config, histVars, client, streams, seeds, mgrVars, provided, callVars>>

\* the memory-aware variants enter the client's own method
BeforeRequest(c, r) ==
    /\ calls[c].pc = "before"
    /\ calls' = [calls EXCEPT ![c] = BeginCall(calls[c], r)]
    /\ events' = BeginEvents(c, calls[c], r)
    /\ clock' = NowAt(clock, 2)
    /\ UNCHANGED <<store, config, histVars, client, streams, started, seeds, mgrVars, provided, callVars>>

\* a plausible slip: the provider is called with the caller's context
ProviderContextOfCaller(call) == Background

\* the context the provider is called with
ProviderContext(call) == call.ctx
\* c.provider.CreateChatCompletion(ctx, req)
ProviderCreateChatCompletion(c, result) ==
    /\ calls[c].pc = "provider"
    /\ calls[c].inner = "sync"
    /\ events' = Append(events,
          Event("provider", "CreateChatCompletion", c, NoInfo,
                ProviderContext(calls[c]), calls[c].sent,
                result.resp, result.err, NilStream, Background, NilStream))
    /\ calls' = [calls EXCEPT ![c].pc = "after", ![c].resp = result.resp,
                              ![c].err = result.err]
    /\ UNCHANGED <<memVars, histVars, client, streams, started, seeds, mgrVars, provided, callVars>>

\* c.provider.CreateChatCompletionStream(ctx, req)
ProviderCreateChatCompletionStream(c, result) ==
    /\ calls[c].pc = "provider"
    /\ calls[c].inner = "stream"
    /\ events' = Append(events,
          Event("provider", "CreateChatCompletionStream", c, NoInfo,
                ProviderContext(calls[c]), calls[c].sent,
                NilResp, result.err, result.stream, Background, NilStream))
    /\ calls' = [calls EXCEPT ![c].pc = "after", ![c].stream = result.stream,
                              ![c].err = result.err]
    /\ UNCHANGED <<memVars, histVars, client, streams, started, seeds, mgrVars, provided, callVars>>

\* whether CreateChatCompletionWithMemory saves: the call succeeded and the
\* response has a choice
MustSave(call) == call.err = NoError /\ Len(call.resp.Choices) > 0
\* the rest of CreateChatCompletion: the hook's AfterResponse, and the return;
\* CreateChatCompletionWithMemory then returns or goes on to save
AfterResponse(c) ==
    /\ calls[c].pc = "after"
    /\ calls[c].inner = "sync"
    /\ events' = IF client.hasHook
                 THEN Append(events,
                        Event("hook", "AfterResponse", c, calls[c].info, calls[c].ctx,
                              calls[c].sent, calls[c].resp, calls[c].err, NilStream,
                              Background, NilStream))
                 ELSE events
    /\ LET call == calls[c]
           stored == GetMessages(store, call.sessionID)
       IN  calls' = [calls EXCEPT ![c] =
             IF ~call.mem
             THEN [call EXCEPT !.pc = "done", !.ret.resp = call.resp,
                               !.ret.err = call.err]
             ELSE IF call.err # NoError
             THEN [call EXCEPT !.pc = "done", !.ret.resp = NilResp,
                               !.ret.err = call.err, !.storedAfter = stored]
             ELSE IF MustSave(call)
             THEN [call EXCEPT !.pc = "save"]
             ELSE [call EXCEPT !.pc = "done", !.ret.resp = call.resp,
                               !.storedAfter = stored]]
    /\ UNCHANGED <<memVars, histVars, client, streams, started, seeds, mgrVars, provided, callVars>>

\* what kvs.SetAny can return: the client's store may be one whose writes fail
SetAnyResults == IF client.kvsMayFail THEN {NoError, ErrSetAny} ELSE {NoError}

\* a plausible slip: the error of the save is returned in place of the response
SavedReturnOrError(call, err) ==
    IF err # NoError
    THEN [resp |-> NilResp, err |-> err, stream |-> NilStream]
    ELSE [resp |-> call.resp, err |-> NoError, stream |-> NilStream]

\* the error of AppendMessages is logged; return response, nil
SavedReturn(call, err) == [resp |-> call.resp, err |-> NoError, stream |-> NilStream]

\* c.memory.AppendMessages(ctx, sessionID, messagesToSave) and the return
SaveToMemory(c) ==
    /\ calls[c].pc = "save"
    /\ \E err \in SetAnyResults :
        LET messages == MessagesToSave(calls[c].req, calls[c].resp)
            r == AppendMessagesTo(store, calls[c].sessionID, messages, clock)
            written == IF err = NoError THEN r.store ELSE store
        IN  /\ store' = written
            /\ clock' = r.clock
            /\ calls' = [calls EXCEPT ![c].pc = "done",
                            ![c].ret = SavedReturn(calls[c], err),
                            ![c].saveErr = err,
                            ![c].saved = IF err = NoError THEN Append(@, messages) ELSE @,
                            ![c].storedAfter = GetMessages(written, calls[c].sessionID)]
    /\ UNCHANGED <<config, histVars, client, events, streams, started, seeds, mgrVars, provided, callVars>>

\* a plausible slip: the error of the provider is not looked at
StreamFailedNever(call) == FALSE

\* if err != nil, after c.provider.CreateChatCompletionStream
StreamFailed(call) == call.err # NoError

\* the rest of CreateChatCompletionStream: AfterResponse when the provider
\* failed, else WrapStream; CreateChatCompletionStreamWithMemory then wraps
\* the stream it got in a memoryAwareStream
StreamReturn(c) ==
    /\ calls[c].pc = "after"
    /\ calls[c].inner = "stream"
    /\ LET call == calls[c]
           wrapped == IF client.hasHook
                      THEN HookWrapStream(call.ctx, call.info, call.sent, call.stream)
                      ELSE call.stream
       IN  IF StreamFailed(call)
           THEN /\ events' = IF client.hasHook
                             THEN Append(events,
                                    Event("hook", "AfterResponse", c, call.info, call.ctx,
                                          call.sent, NilResp, call.err, NilStream,
                                          Background, NilStream))
                             ELSE events
                /\ calls' = [calls EXCEPT ![c].pc = "done", ![c].ret.err = call.err]
                /\ streams' = streams
           ELSE /\ events' = IF client.hasHook
                             THEN Append(events,
                                    Event("hook", "WrapStream", c, call.info, call.ctx,
                                          call.sent, NilResp, NoError, call.stream,
                                          Background, wrapped))
                             ELSE events
                /\ calls' = [calls EXCEPT ![c].pc = "done",
                                ![c].ret.stream = IF call.mem
                                                  THEN Append(wrapped, "memory")
                                                  ELSE wrapped]
                /\ streams' = IF call.mem
                              THEN [streams EXCEPT ![c] =
                                      [NoStream EXCEPT !.exists = TRUE,
                                                       !.inner = wrapped,
                                                       !.sessionID = call.sessionID,
                                                       !.reqMessages = call.req,
                                                       !.storedAtOpen =
                                                         GetMessages(store, call.sessionID)]]
                              ELSE streams
    /\ UNCHANGED <<memVars, histVars, client, started, seeds, mgrVars, provided, callVars>>

----------------------------------------------------------------------------
(* memoryAwareStream *)

NilChunk == [isNil |-> TRUE, Choices |-> <<>>]
Chunk(choices) == [isNil |-> FALSE, Choices |-> choices]
NilDelta == [isNil |-> TRUE, Content |-> <<>>]
Delta(content) == [isNil |-> FALSE, Content |-> content]
DeltaChoice(delta) == [Delta |-> delta]

\* what the k-th Recv of the wrapped stream can return: an error, or a chunk
\* with no choice, with a choice that has no delta, or with a delta whose
\* content is empty or is a fragment that tells its position
RecvResults(k) ==
    {[chunk |-> NilChunk, err |-> EOF],
     [chunk |-> NilChunk, err |-> ErrRecv],
     [chunk |-> Chunk(<<>>), err |-> NoError],
     [chunk |-> Chunk(<<DeltaChoice(NilDelta)>>), err |-> NoError],
     [chunk |-> Chunk(<<DeltaChoice(Delta(<<>>))>>), err |-> NoError],
     [chunk |-> Chunk(<<DeltaChoice(Delta(ContentOf(k + 1)))>>), err |-> NoError]}

\* a plausible slip: any error of the wrapped stream triggers the save
RecvMustSaveOnAnyError(s, err) == ~s.streamClosed

\* a plausible slip: the flag is not consulted, so every end-of-stream saves
RecvMustSaveAgain(s, err) == err = EOF

\* Recv saves when it hits EOF on a stream it has not marked closed
RecvMustSave(s, err) == err = EOF /\ ~s.streamClosed

\* Close saves when the stream is not marked closed
CloseMustSave(s) == ~s.streamClosed

\* a plausible slip: fragments are put in front of the buffer
WriteStringInFront(buffer, content) == content \o buffer

\* s.responseBuffer.WriteString(chunk.Choices[0].Delta.Content)
WriteString(buffer, content) == buffer \o content

\* messagesToSave := append(s.reqMessages, assistantMessage)
BufferedMessages(s) ==
    Append(s.reqMessages, Msg(RoleAssistant, s.responseBuffer))

\* memoryAwareStream.saveBufferedResponse from store st and clock value c;
\* saved lists the AppendMessages call it made, if any
\* err is what the store's SetAny returns if it is called
saveBufferedResponse(s, st, c, err) ==
    IF Len(s.responseBuffer) > 0
    THEN LET messages == BufferedMessages(s)
             r == AppendMessagesTo(st, s.sessionID, messages, c)
         IN  IF err = NoError
             THEN [store |-> r.store, clock |-> r.clock, failed |-> 0,
                   saved |-> <<[messages |-> messages,
                                before |-> GetMessages(st, s.sessionID),
                                after |-> GetMessages(r.store, s.sessionID)]>>]
             ELSE [store |-> st, clock |-> r.clock, failed |-> 1, saved |-> <<>>]
    ELSE [store |-> st, clock |-> c, failed |-> 0, saved |-> <<>>]

\* what Close of the wrapped stream can return
CloseResults == {NoError, ErrClose}

\* what memoryAwareStream.Recv returns: return chunk, err and return chunk, nil
RecvReturn(result) ==
    IF result.err # NoError
    THEN [chunk |-> result.chunk, err |-> result.err]
    ELSE [chunk |-> result.chunk, err |-> NoError]

\* memoryAwareStream.Recv, the wrapped stream returning result
Recv(c, result) ==
    /\ streams[c].exists
    /\ streams[c].recvs < MaxRecv
    /\ \E written \in SetAnyResults :
       LET s == streams[c]
           saving == result.err # NoError /\ RecvMustSave(s, result.err)
           sv == saveBufferedResponse(s, store, clock, written)
           buffering == /\ result.err = NoError
                        /\ Len(result.chunk.Choices) > 0
                        /\ ~result.chunk.Choices[1].Delta.isNil
           content == IF buffering THEN result.chunk.Choices[1].Delta.Content ELSE <<>>
       IN  /\ store' = IF saving THEN sv.store ELSE store
           /\ clock' = IF saving THEN sv.clock ELSE clock
           /\ streams' = [streams EXCEPT ![c] =
                 [s EXCEPT !.responseBuffer =
                               IF buffering THEN WriteString(@, content) ELSE @,
                           !.streamClosed = IF saving THEN TRUE ELSE @,
                           !.recvs = @ + 1,
                           !.sawEOF = @ \/ result.err = EOF,
                           !.failed = IF result.err \notin {NoError, EOF}
                                      THEN @ + 1 ELSE @,
                           !.endedBy = IF @ = "none" /\ result.err = EOF
                                       THEN "EOF" ELSE @,
                           !.atEnd = IF s.endedBy = "none" /\ result.err = EOF
                                     THEN s.delivered ELSE @,
                           !.delivered = IF buffering THEN Append(@, content) ELSE @,
                           !.saves = IF saving THEN @ \o sv.saved ELSE @,
                           !.saveErrs = IF saving THEN @ + sv.failed ELSE @,
                           !.recvGot = <<result>>,
                           !.recvRet = <<RecvReturn(result)>>]]
    /\ UNCHANGED <<config, histVars, client, calls, events, started, seeds, mgrVars, provided, callVars>>

\* memoryAwareStream.Close, Close of the wrapped stream returning result
Close(c, result) ==
    /\ streams[c].exists
    /\ streams[c].closes < MaxClose
    /\ \E written \in SetAnyResults :
       LET s == streams[c]
           saving == CloseMustSave(s)
           sv == saveBufferedResponse(s, store, clock, written)
       IN  /\ store' = IF saving THEN sv.store ELSE store
           /\ clock' = IF saving THEN sv.clock ELSE clock
           /\ streams' = [streams EXCEPT ![c] =
                 [s EXCEPT !.streamClosed = IF saving THEN TRUE ELSE @,
                           !.closes = @ + 1,
                           !.endedBy = IF @ = "none" THEN "Close" ELSE @,
                           !.atEnd = IF s.endedBy = "none" THEN s.delivered ELSE @,
                           !.saves = IF saving THEN @ \o sv.saved ELSE @,
                           !.saveErrs = IF saving THEN @ + sv.failed ELSE @,
                           !.closeGot = <<result>>,
                           !.closeRet = <<result>>]]
    /\ UNCHANGED <<config, histVars, client, calls, events, started, seeds, mgrVars, provided, callVars>>

\* a plausible slip: the system message is added to the stored conversation
CreateConversationKeepingMessages(sessionID, systemMessage) ==
    /\ client.hasMemory
    /\ seeds < MaxSeeds
    /\ LET conversation ==
               Grown(LoadConversation(store, sessionID, clock),
                     <<Msg(RoleSystem, systemMessage)>>)
       IN  \E err \in SetAnyResults :
              store' = IF err = NoError
                       THEN SaveConversation(store, conversation, NowAt(clock, 3))
                       ELSE store
    /\ clock' = NowAt(clock, 4)
    /\ seeds' = seeds + 1
    /\ last' = Kept([Operation("CreateConversationWithSystemMessage", sessionID, store)
                   EXCEPT !.messages = <<Msg(RoleSystem, systemMessage)>>])
    /\ UNCHANGED <<config, histVars, client, calls, events, streams, started,
                   appenders, provided, callVars>>

\* ChatClient.CreateConversationWithSystemMessage on a client with memory
CreateConversationWithSystemMessage(sessionID, systemMessage) ==
    /\ client.hasMemory
    /\ seeds < MaxSeeds
    /\ LET conversation ==
               [SessionID |-> sessionID,
                Messages |-> <<Msg(RoleSystem, systemMessage)>>,
                CreatedAt |-> NowAt(clock, 1), UpdatedAt |-> NowAt(clock, 2),
                Metadata |-> EmptyMap]
       IN  \E err \in SetAnyResults :
              store' = IF err = NoError
                       THEN SaveConversation(store, conversation, NowAt(clock, 3))
                       ELSE store
    /\ clock' = NowAt(clock, 4)
    /\ seeds' = seeds + 1
    /\ last' = Kept([Operation("CreateConversationWithSystemMessage", sessionID, store)
                   EXCEPT !.messages = <<Msg(RoleSystem, systemMessage)>>])
    /\ UNCHANGED <<config, histVars, client, calls, events, streams, started,
                   appenders, provided, callVars>>

----------------------------------------------------------------------------
(* The memory manager used by one caller *)

NoClient ==
    /\ client = [hasHook |-> FALSE, hasMemory |-> TRUE, kvsMayFail |-> FALSE]
    /\ calls = <<>>
    /\ events = <<>>
    /\ streams = <<>>
    /\ started = 0
    /\ seeds = 0
    /\ appenders = <<>>
    /\ provided = NoProvided
    /\ outcome = NoOutcome
    /\ http = <<>>

MemInit ==
    /\ store = <<>>
    /\ config \in [MaxMessages : 0..MaxCap]
    /\ clock = 0
    /\ appended = [s \in SessionIDs |-> <<>>]
    /\ singly = TRUE
    /\ lastSave = [s \in SessionIDs |-> <<>>]
    /\ last = NoOperation
    /\ NoClient

MemNext ==
    \/ \E s \in SessionIDs, r \in AppendRoles :
          AppendMessage(s, NextMessages(s, <<r>>)[1])
    \/ \E s \in SessionIDs, n \in 2..MaxBatch : \E roles \in [1..n -> AppendRoles] :
          AppendMessages(s, NextMessages(s, roles))

SpecMem == MemInit /\ [][MemNext]_vars

----------------------------------------------------------------------------
(* The streams of the providers' clients: ollama.Stream, openai.Stream and
   anthropic.Stream, each reading the body of one HTTP response *)

MaxLines == 3
MaxStreamRecv == 2
MaxStreamClose == 2

Dialects == {"ollama", "openai", "anthropic"}

ErrStreamClosed == "stream is closed"
ErrReadAfterClose == "http: read on closed response body"
ErrDecode == "failed to decode stream chunk"
ErrBodyClose == "body close failed"

\* the lines a response body can carry: a chunk, an empty line, a line that
\* does not decode, the [DONE] sentinel of OpenAI, a line of another kind;
\* for Anthropic the events, by their type
LineKinds(dialect) ==
    IF dialect = "ollama" THEN {"chunk", "blank", "bad"}
    ELSE IF dialect = "openai" THEN {"chunk", "blank", "bad", "done", "other"}
    ELSE {"message_start", "content_block_delta", "message_delta",
          "message_stop", "ping", "bad"}

\* a line knows its place on the wire
Line(kind, at) == [kind |-> kind, at |-> at]
Lines(kinds) == [i \in 1..Len(kinds) |-> Line(kinds[i], i)]

\* the event sequence of one Anthropic message, a ping among the events
OneMessage ==
    <<"message_start", "content_block_delta", "ping", "content_block_delta",
      "message_delta", "message_stop">>

Bodies(dialect) ==
    {Lines(kinds) : kinds \in UNION {[1..n -> LineKinds(dialect)] : n \in 0..MaxLines}}
    \cup (IF dialect = "anthropic" THEN {Lines(OneMessage)} ELSE {})

NoChunk == <<>>
Received(chunk, err) == [chunk |-> chunk, err |-> err]

\* what a Recv adds to the record of the stream
AfterRecv(got, rest) ==
    [provided EXCEPT
        !.body = rest,
        !.recvs = @ + 1,
        !.results = Append(@, [got |-> got, open |-> provided.closes = 0]),
        !.afterClose = IF provided.closes > 0 THEN Append(@, got) ELSE @]

\* the caller may call Recv once more
MayRecv(dialect) ==
    /\ provided.dialect = dialect
    /\ provided.recvs < Len(provided.wire) + MaxStreamRecv

\* closing the body of the response: the first Close can fail, a Close of a
\* closed body of net/http returns nil
BodyCloseResults == IF provided.bodyClosed THEN {NoError} ELSE {NoError, ErrBodyClose}

\* what is left of the body when one read gave a new scanner n lines
OllamaLeft(body, n) == SubSeq(body, n + 1, Len(body))

\* ollama.Stream.Recv on what one read of the body gives a new scanner:
\* the scanner takes the first line, its buffer goes with it
OllamaRecvOf(lines) ==
    IF lines = <<>> THEN Received(NoChunk, EOF)
    ELSE IF lines[1].kind = "blank" THEN Received(NoChunk, EOF)
    ELSE IF lines[1].kind = "bad" THEN Received(NoChunk, ErrDecode)
    ELSE Received(<<lines[1]>>, NoError)

\* ollama.Stream.Recv: the stream keeps no record of Close, so the read goes
\* to the body; a closed body fails the read and the scanner reports it
OllamaRecv ==
    /\ MayRecv("ollama")
    /\ \E n \in 0..Len(provided.body) :
          /\ n = 0 => (provided.body = <<>> \/ provided.bodyClosed)
          /\ provided' =
                IF provided.bodyClosed
                THEN AfterRecv(Received(NoChunk, ErrReadAfterClose), provided.body)
                ELSE AfterRecv(OllamaRecvOf(SubSeq(provided.body, 1, n)),
                               IF n = 0 THEN <<>> ELSE OllamaLeft(provided.body, n))
    /\ UNCHANGED <<memVars, histVars, clientVars, mgrVars, callVars>>

\* ollama.Stream.Close: return s.closer.Close()
OllamaClose ==
    /\ provided.dialect = "ollama"
    /\ provided.closes < MaxStreamClose
    /\ \E err \in BodyCloseResults :
          provided' = [provided EXCEPT !.bodyClosed = TRUE, !.closes = @ + 1,
                                       !.bodyCloses = @ + 1,
                                       !.closeResults = Append(@, err)]
    /\ UNCHANGED <<memVars, histVars, clientVars, mgrVars, callVars>>

\* a plausible slip: malformed data ends the scan with an error
RECURSIVE OpenAIScanStrict(_)
OpenAIScanStrict(lines) ==
    IF lines = <<>> THEN [got |-> Received(NoChunk, EOF), rest |-> <<>>]
    ELSE IF Head(lines).kind = "done"
         THEN [got |-> Received(NoChunk, EOF), rest |-> Tail(lines)]
    ELSE IF Head(lines).kind = "chunk"
         THEN [got |-> Received(<<Head(lines)>>, NoError), rest |-> Tail(lines)]
    ELSE IF Head(lines).kind = "bad"
         THEN [got |-> Received(NoChunk, ErrDecode), rest |-> Tail(lines)]
    ELSE OpenAIScanStrict(Tail(lines))

\* the loop of openai.Stream.Recv over the lines left: empty lines, lines
\* that are not data and data that does not decode are passed over
RECURSIVE OpenAIScan(_)
OpenAIScan(lines) ==
    IF lines = <<>> THEN [got |-> Received(NoChunk, EOF), rest |-> <<>>]
    ELSE IF Head(lines).kind = "done"
         THEN [got |-> Received(NoChunk, EOF), rest |-> Tail(lines)]
    ELSE IF Head(lines).kind = "chunk"
         THEN [got |-> Received(<<Head(lines)>>, NoError), rest |-> Tail(lines)]
    ELSE OpenAIScan(Tail(lines))

\* openai.Stream.Recv: the error if s.closed, else the scan
OpenAIRecv ==
    /\ MayRecv("openai")
    /\ LET r == OpenAIScan(provided.body)
       IN  provided' = IF provided.closed
                       THEN AfterRecv(Received(NoChunk, ErrStreamClosed), provided.body)
                       ELSE AfterRecv(r.got, r.rest)
    /\ UNCHANGED <<memVars, histVars, clientVars, mgrVars, callVars>>

\* openai.Stream.Close: the flag is set and the body closed, once
OpenAIClose ==
    /\ provided.dialect = "openai"
    /\ provided.closes < MaxStreamClose
    /\ \E err \in BodyCloseResults :
          provided' =
             IF ~provided.closed
             THEN [provided EXCEPT !.closed = TRUE, !.bodyClosed = TRUE,
                                   !.closes = @ + 1, !.bodyCloses = @ + 1,
                                   !.closeResults = Append(@, err)]
             ELSE [provided EXCEPT !.closes = @ + 1,
                                   !.closeResults = Append(@, NoError)]
    /\ UNCHANGED <<memVars, histVars, clientVars, mgrVars, callVars>>

\* the events anthropic.Stream.Recv returns
ReturnedEvents ==
    {"content_block_delta", "message_start", "message_delta", "message_stop"}

\* the loop of anthropic.Stream.Recv over the events left: events that do not
\* decode or are of a type it does not return are passed over
RECURSIVE AnthropicScan(_)
AnthropicScan(lines) ==
    IF lines = <<>> THEN [got |-> Received(NoChunk, EOF), rest |-> <<>>]
    ELSE IF Head(lines).kind \in ReturnedEvents
         THEN [got |-> Received(<<Head(lines)>>, NoError), rest |-> Tail(lines)]
    ELSE AnthropicScan(Tail(lines))

\* what the events carry
MessageID == <<"msg_1">>
Model == <<"m">>
StopReason == <<"end_turn">>
NoDelta == <<>>
NoFinishReason == <<>>
AdapterChoice(delta, finishReason) == [Delta |-> delta, FinishReason |-> finishReason]
AdapterChunk(id, model, choices, event) ==
    [ID |-> id, Model |-> model, Choices |-> choices, event |-> event]

\* a plausible slip: the delta of a content chunk gets no role
ContentDeltaBare(event) == <<[Role |-> <<>>, Content |-> ContentOf(event.at)]>>

\* Delta: &provider.Message{Role: provider.RoleAssistant, Content: content}
ContentDelta(event) == <<[Role |-> RoleAssistant, Content |-> ContentOf(event.at)]>>

\* the switch of anthropic StreamAdapter.Recv on the type of the event, the
\* adapter holding id and model
AdapterChunkOf(event, id, model) ==
    IF event.kind = "message_start"
    THEN AdapterChunk(MessageID, Model, <<>>, event)
    ELSE IF event.kind = "content_block_delta"
    THEN AdapterChunk(id, model, <<AdapterChoice(ContentDelta(event), NoFinishReason)>>,
                      event)
    ELSE IF event.kind = "message_delta"
    THEN AdapterChunk(id, model, <<AdapterChoice(NoDelta, StopReason)>>, event)
    ELSE AdapterChunk(id, model, <<>>, event)

\* anthropic StreamAdapter.Recv over anthropic.Stream.Recv: the error if
\* s.closed, else the scan and the chunk of the event it found
AnthropicRecv ==
    /\ MayRecv("anthropic")
    /\ LET r == AnthropicScan(provided.body)
           starts == r.got.err = NoError /\ r.got.chunk[1].kind = "message_start"
           chunk == IF r.got.err = NoError
                    THEN <<AdapterChunkOf(r.got.chunk[1], provided.messageID,
                                          provided.model)>>
                    ELSE NoChunk
       IN  provided' =
              IF provided.closed
              THEN AfterRecv(Received(NoChunk, ErrStreamClosed), provided.body)
              ELSE [AfterRecv(Received(chunk, r.got.err), r.rest) EXCEPT
                       !.messageID = IF starts THEN MessageID ELSE @,
                       !.model = IF starts THEN Model ELSE @]
    /\ UNCHANGED <<memVars, histVars, clientVars, mgrVars, callVars>>

\* anthropic.Stream.Close: the flag is set and the body closed, once
AnthropicClose ==
    /\ provided.dialect = "anthropic"
    /\ provided.closes < MaxStreamClose
    /\ \E err \in BodyCloseResults :
          provided' =
             IF ~provided.closed
             THEN [provided EXCEPT !.closed = TRUE, !.bodyClosed = TRUE,
                                   !.closes = @ + 1, !.bodyCloses = @ + 1,
                                   !.closeResults = Append(@, err)]
             ELSE [provided EXCEPT !.closes = @ + 1,
                                   !.closeResults = Append(@, NoError)]
    /\ UNCHANGED <<memVars, histVars, clientVars, mgrVars, callVars>>

StreamsInit ==
    /\ store = <<>>
    /\ config = [MaxMessages |-> DefaultMaxMessages]
    /\ clock = 0
    /\ appended = <<>>
    /\ singly = TRUE
    /\ lastSave = <<>>
    /\ client = [hasHook |-> FALSE, hasMemory |-> FALSE, kvsMayFail |-> FALSE]
    /\ calls = <<>>
    /\ events = <<>>
    /\ streams = <<>>
    /\ started = 0
    /\ seeds = 0
    /\ last = NoOperation
    /\ appenders = <<>>
    /\ \E dialect \in Dialects : \E body \in Bodies(dialect) :
          provided = [NoProvided EXCEPT !.dialect = dialect, !.wire = body,
                                        !.body = body]
    /\ outcome = NoOutcome
    /\ http = <<>>

StreamsNext ==
    \/ OllamaRecv
    \/ OllamaClose
    \/ OpenAIRecv
    \/ OpenAIClose
    \/ AnthropicRecv
    \/ AnthropicClose

SpecStreams == StreamsInit /\ [][StreamsNext]_vars

----------------------------------------------------------------------------
(* One call on a client by one caller, who then uses the stream it returned;
   the conversation may be created, before or after, with a system message *)

\* the one caller
Callers == {"caller"}

NoHistory ==
    /\ appended = [s \in SessionIDs |-> <<>>]
    /\ singly = TRUE
    /\ lastSave = [s \in SessionIDs |-> <<>>]

ClientInit ==
    /\ store = <<>>
    /\ config = [MaxMessages |-> DefaultMaxMessages]
    /\ clock = 0
    /\ NoHistory
    /\ client \in [hasHook : BOOLEAN, hasMemory : BOOLEAN, kvsMayFail : {FALSE}]
    /\ calls = [c \in Callers |-> IdleCall]
    /\ events = <<>>
    /\ streams = [c \in Callers |-> NoStream]
    /\ started = 0
    /\ seeds = 0
    /\ last = NoOperation
    /\ appenders = <<>>
    /\ provided = NoProvided
    /\ outcome = NoOutcome
    /\ http = <<>>

\* the caller starts a call and sees it through, then uses the stream
ClientNext ==
    \E c \in Callers :
        \/ \E req \in Requests, r \in RandomReads :
              CreateChatCompletion(c, req, r)
        \/ \E req \in Requests, r \in RandomReads :
              CreateChatCompletionStream(c, req, r)
        \/ \E s \in SessionIDs, req \in Requests, r \in RandomReads :
              CreateChatCompletionWithMemory(c, s, req, r)
        \/ \E s \in SessionIDs, req \in Requests, r \in RandomReads :
              CreateChatCompletionStreamWithMemory(c, s, req, r)
        \/ \E r \in RandomReads : BeforeRequest(c, r)
        \/ \E result \in SyncResults : ProviderCreateChatCompletion(c, result)
        \/ \E result \in StreamResults : ProviderCreateChatCompletionStream(c, result)
        \/ AfterResponse(c)
        \/ SaveToMemory(c)
        \/ StreamReturn(c)
        \/ \E result \in RecvResults(streams[c].recvs) :
              NoCallRunning /\ Recv(c, result)
        \/ \E result \in CloseResults : NoCallRunning /\ Close(c, result)
        \/ \E s \in SessionIDs :
              NoCallRunning /\ CreateConversationWithSystemMessage(s, BeBrief)

SpecClient == ClientInit /\ [][ClientNext]_vars

----------------------------------------------------------------------------
(* The same on a client with memory whose store's writes may fail *)

FailingInit ==
    /\ store = <<>>
    /\ config = [MaxMessages |-> DefaultMaxMessages]
    /\ clock = 0
    /\ NoHistory
    /\ client \in [hasHook : BOOLEAN, hasMemory : {TRUE}, kvsMayFail : {TRUE}]
    /\ calls = [c \in Callers |-> IdleCall]
    /\ events = <<>>
    /\ streams = [c \in Callers |-> NoStream]
    /\ started = 0
    /\ seeds = 0
    /\ last = NoOperation
    /\ appenders = <<>>
    /\ provided = NoProvided
    /\ outcome = NoOutcome
    /\ http = <<>>

\* the random source works: the call ids play no part here
WorkingReads == {r \in RandomReads : r.ok /\ r.b[1] = 1}

\* the caller makes a call with memory and sees it through, then uses the
\* stream
FailingNext ==
    \E c \in Callers :
        \/ \E s \in SessionIDs, req \in Requests, r \in WorkingReads :
              CreateChatCompletionWithMemory(c, s, req, r)
        \/ \E s \in SessionIDs, req \in Requests, r \in WorkingReads :
              CreateChatCompletionStreamWithMemory(c, s, req, r)
        \/ \E r \in WorkingReads : BeforeRequest(c, r)
        \/ \E result \in SyncResults : ProviderCreateChatCompletion(c, result)
        \/ \E result \in StreamResults : ProviderCreateChatCompletionStream(c, result)
        \/ AfterResponse(c)
        \/ SaveToMemory(c)
        \/ StreamReturn(c)
        \/ \E result \in RecvResults(streams[c].recvs) :
              NoCallRunning /\ Recv(c, result)
        \/ \E result \in CloseResults : NoCallRunning /\ Close(c, result)
        \/ \E s \in SessionIDs :
              NoCallRunning /\ CreateConversationWithSystemMessage(s, BeBrief)

SpecFailing == FailingInit /\ [][FailingNext]_vars

----------------------------------------------------------------------------
(* CreateChatCompletion called by NCalls callers at once, hook installed *)

ConcurrentInit ==
    /\ store = <<>>
    /\ config = [MaxMessages |-> DefaultMaxMessages]
    /\ clock = 0
    /\ NoHistory
    /\ client = [hasHook |-> TRUE, hasMemory |-> FALSE, kvsMayFail |-> FALSE]
    /\ calls = [c \in 1..NCalls |-> IdleCall]
    /\ events = <<>>
    /\ streams = [c \in 1..NCalls |-> NoStream]
    /\ started = 0
    /\ seeds = 0
    /\ last = NoOperation
    /\ appenders = <<>>
    /\ provided = NoProvided
    /\ outcome = NoOutcome
    /\ http = <<>>

\* the provider answers or fails
ConcurrentResults ==
    {[resp |-> NilResp, err |-> ErrProvider],
     [resp |-> Resp(<<Choice(Hello)>>), err |-> NoError]}

\* callers are numbered in the order in which they start
ConcurrentNext ==
    \E c \in 1..NCalls :
        \/ \E r \in RandomReads :
              /\ \A d \in 1..(c - 1) : calls[d].pc # "idle"
              /\ CreateChatCompletion(c, <<Hi>>, r)
        \/ \E result \in ConcurrentResults : ProviderCreateChatCompletion(c, result)
        \/ AfterResponse(c)

SpecConcurrent == ConcurrentInit /\ [][ConcurrentNext]_vars

----------------------------------------------------------------------------
(* AppendMessages called once by each of NAppenders callers at once on one
   session: LoadConversation and SaveConversation of one call are two steps, each
   atomic under the lock of the store *)

\* concurrent callers of AppendMessages
NAppenders == 3

RacedSession == <<"s", "1">>

IdleAppender ==
    [pc |-> "idle", conversation |-> ZeroConversation, messages |-> <<>>,
     rounds |-> 0, wrote |-> [loaded |-> <<>>, messages |-> <<>>]]

\* the messages of the next call of appender c: one or two, its own
OwnMessages(c, n) ==
    [i \in 1..n |-> Msg(RoleUser, <<"m", c, appenders[c].rounds + 1, i>>)]

\* conversation, err := m.LoadConversation(ctx, sessionID)
AppendMessagesLoad(c, messages) ==
    /\ appenders[c].pc = "idle"
    /\ appenders[c].rounds = 0
    /\ appenders' = [appenders EXCEPT ![c] =
          [@ EXCEPT !.pc = "loaded",
                    !.conversation = LoadConversation(store, RacedSession, clock),
                    !.messages = messages]]
    /\ clock' = NowAt(clock, LoadNowCalls(store, RacedSession) + 1)
    /\ UNCHANGED <<store, config, histVars, clientVars, last, provided, callVars>>

\* the append, and return m.SaveConversation(ctx, conversation)
AppendMessagesSave(c) ==
    /\ appenders[c].pc = "loaded"
    /\ LET a == appenders[c]
       IN  /\ store' = SaveConversation(store, Grown(a.conversation, a.messages),
                                        NowAt(clock, 1))
           /\ appenders' = [appenders EXCEPT ![c] =
                 [a EXCEPT !.pc = "idle", !.rounds = @ + 1,
                           !.wrote = [loaded |-> a.conversation.Messages,
                                      messages |-> a.messages]]]
           /\ last' = Kept([Operation("AppendMessages", RacedSession, store)
                          EXCEPT !.messages = a.messages])
    /\ clock' = NowAt(clock, 2)
    /\ UNCHANGED <<config, histVars, clientVars, provided, callVars>>

\* the session is new, or has a conversation already
RaceStores ==
    {<<>>,
     SetAny(<<>>, buildKey(RacedSession),
            [SessionID |-> RacedSession, Messages |-> <<Msg(RoleSystem, BeBrief)>>,
             CreatedAt |-> 0, UpdatedAt |-> 0, Metadata |-> EmptyMap])}

RaceInit ==
    /\ store \in RaceStores
    /\ config = [MaxMessages |-> DefaultMaxMessages]
    /\ clock = 0
    /\ NoHistory
    /\ client = [hasHook |-> FALSE, hasMemory |-> TRUE, kvsMayFail |-> FALSE]
    /\ calls = <<>>
    /\ events = <<>>
    /\ streams = <<>>
    /\ started = 0
    /\ seeds = 0
    /\ last = NoOperation
    /\ appenders = [c \in 1..NAppenders |-> IdleAppender]
    /\ provided = NoProvided
    /\ outcome = NoOutcome
    /\ http = <<>>

RaceNext ==
    \E c \in 1..NAppenders :
        \/ \E n \in 1..2 : AppendMessagesLoad(c, OwnMessages(c, n))
        \/ AppendMessagesSave(c)

SpecRace == RaceInit /\ [][RaceNext]_vars

----------------------------------------------------------------------------
(* A Recv and a Close on one memoryAwareStream by two goroutines: the stream
   has no lock, so the statements of the two calls interleave *)

\* the stream the two goroutines share
Shared == "caller"

\* what the stream has buffered when the two calls begin
BufferedBefore == {<<>>, ContentOf(1), ContentOf(1) \o ContentOf(2)}

\* a call that has not begun
NotBegun == [pc |-> "idle", got |-> [chunk |-> NilChunk, err |-> NoError]]

\* what an unsynchronised read of s.streamClosed can give: the value before
\* the calls, or the value the other goroutine has written
FlagReads == IF streams[Shared].streamClosed THEN {FALSE, TRUE} ELSE {FALSE}

\* chunk, err := s.stream.Recv()
RecvInner ==
    /\ calls["Recv"].pc = "idle"
    /\ \E result \in RecvResults(Len(streams[Shared].responseBuffer)) :
          /\ calls' = [calls EXCEPT !["Recv"] =
                [pc |-> IF result.err = EOF THEN "check"
                        ELSE IF result.err # NoError THEN "done"
                        ELSE "buffer",
                 got |-> result]]
          /\ streams' = [streams EXCEPT ![Shared].recvs = @ + 1,
                                        ![Shared].recvGot = <<result>>]
    /\ UNCHANGED <<memVars, histVars, client, events, started, seeds, mgrVars, provided, callVars>>

\* if err.Error() == "EOF" && !s.streamClosed
RecvCheck ==
    /\ calls["Recv"].pc = "check"
    /\ \E seen \in FlagReads :
          calls' = [calls EXCEPT !["Recv"].pc =
                      IF RecvMustSave([streamClosed |-> seen], calls["Recv"].got.err)
                      THEN "save" ELSE "done"]
    /\ UNCHANGED <<memVars, histVars, client, events, streams, started, seeds, mgrVars, provided, callVars>>

\* s.saveBufferedResponse() of Recv
RecvSave ==
    /\ calls["Recv"].pc = "save"
    /\ \E written \in SetAnyResults :
          LET sv == saveBufferedResponse(streams[Shared], store, clock, written)
          IN  /\ store' = sv.store
              /\ clock' = sv.clock
              /\ streams' = [streams EXCEPT ![Shared].saves = @ \o sv.saved,
                                            ![Shared].saveErrs = @ + sv.failed]
    /\ calls' = [calls EXCEPT !["Recv"].pc = "mark"]
    /\ UNCHANGED <<config, histVars, client, events, started, seeds, mgrVars, provided, callVars>>

\* s.streamClosed = true of Recv, and the return
RecvMark ==
    /\ calls["Recv"].pc = "mark"
    /\ streams' = [streams EXCEPT ![Shared].streamClosed = TRUE]
    /\ calls' = [calls EXCEPT !["Recv"].pc = "done"]
    /\ UNCHANGED <<memVars, histVars, client, events, started, seeds, mgrVars, provided, callVars>>

\* the chunk's content is buffered, and the return
RecvBuffer ==
    /\ calls["Recv"].pc = "buffer"
    /\ LET chunk == calls["Recv"].got.chunk
           buffering == Len(chunk.Choices) > 0 /\ ~chunk.Choices[1].Delta.isNil
       IN  streams' = [streams EXCEPT ![Shared].responseBuffer =
                          IF buffering
                          THEN WriteString(@, chunk.Choices[1].Delta.Content)
                          ELSE @]
    /\ calls' = [calls EXCEPT !["Recv"].pc = "done"]
    /\ UNCHANGED <<memVars, histVars, client, events, started, seeds, mgrVars, provided, callVars>>

\* if !s.streamClosed of Close
CloseCheck ==
    /\ calls["Close"].pc = "idle"
    /\ \E seen \in FlagReads :
          calls' = [calls EXCEPT !["Close"].pc =
                      IF CloseMustSave([streamClosed |-> seen]) THEN "save" ELSE "inner"]
    /\ UNCHANGED <<memVars, histVars, client, events, streams, started, seeds, mgrVars, provided, callVars>>

\* s.saveBufferedResponse() of Close
CloseSave ==
    /\ calls["Close"].pc = "save"
    /\ \E written \in SetAnyResults :
          LET sv == saveBufferedResponse(streams[Shared], store, clock, written)
          IN  /\ store' = sv.store
              /\ clock' = sv.clock
              /\ streams' = [streams EXCEPT ![Shared].saves = @ \o sv.saved,
                                            ![Shared].saveErrs = @ + sv.failed]
    /\ calls' = [calls EXCEPT !["Close"].pc = "mark"]
    /\ UNCHANGED <<config, histVars, client, events, started, seeds, mgrVars, provided, callVars>>

\* s.streamClosed = true of Close
CloseMark ==
    /\ calls["Close"].pc = "mark"
    /\ streams' = [streams EXCEPT ![Shared].streamClosed = TRUE]
    /\ calls' = [calls EXCEPT !["Close"].pc = "inner"]
    /\ UNCHANGED <<memVars, histVars, client, events, started, seeds, mgrVars, provided, callVars>>

\* return s.stream.Close()
CloseInner ==
    /\ calls["Close"].pc = "inner"
    /\ \E result \in CloseResults :
          streams' = [streams EXCEPT ![Shared].closes = @ + 1,
                                     ![Shared].closeGot = <<result>>,
                                     ![Shared].closeRet = <<result>>]
    /\ calls' = [calls EXCEPT !["Close"].pc = "done"]
    /\ UNCHANGED <<memVars, histVars, client, events, started, seeds, mgrVars, provided, callVars>>

\* the stream CreateChatCompletionStreamWithMemory returned has buffered
\* something or nothing; one goroutine is about to call Recv, another Close
StreamRaceInit ==
    /\ store \in RaceStores
    /\ config = [MaxMessages |-> DefaultMaxMessages]
    /\ clock = 0
    /\ NoHistory
    /\ client = [hasHook |-> FALSE, hasMemory |-> TRUE, kvsMayFail |-> FALSE]
    /\ calls = [c \in {"Recv", "Close"} |-> NotBegun]
    /\ events = <<>>
    /\ \E reqMessages \in Requests, buffer \in BufferedBefore :
          streams = [c \in {Shared} |->
                       [NoStream EXCEPT !.exists = TRUE,
                                        !.sessionID = RacedSession,
                                        !.reqMessages = reqMessages,
                                        !.responseBuffer = buffer,
                                        !.storedAtOpen = GetMessages(store, RacedSession)]]
    /\ started = 0
    /\ seeds = 0
    /\ last = NoOperation
    /\ appenders = <<>>
    /\ provided = NoProvided
    /\ outcome = NoOutcome
    /\ http = <<>>

StreamRaceNext ==
    \/ RecvInner
    \/ RecvCheck
    \/ RecvSave
    \/ RecvMark
    \/ RecvBuffer
    \/ CloseCheck
    \/ CloseSave
    \/ CloseMark
    \/ CloseInner

SpecStreamRace == StreamRaceInit /\ [][StreamRaceNext]_vars

----------------------------------------------------------------------------
(* The operations of the memory manager called one after the other on two
   sessions, over a store that may hold something undecodable *)

ManagerSessions == {<<"s", "1">>, <<"s", "1", ":", "2">>}

\* operations called in a run of this specification
MaxOps == 3

\* a stored string that is not a JSON document and is not empty
Undecodable == [isJSON |-> FALSE, text |-> <<"{">>]

\* the caps: none, one that the conversations of the run exceed, the default
ManagerCaps == {0, 2, DefaultMaxMessages}

\* metadata a caller saves or patches with
Patches ==
    {<<>>,
     ("user_id" :> GoString("u1")),
     ("user_id" :> GoString("u2")) @@ ("n" :> GoInt(1))}

\* conversations a caller hands to SaveConversation
SavedConversations ==
    [SessionID : ManagerSessions,
     Messages : {<<Msg(RoleUser, Text("Hello")), Msg(RoleAssistant, Text("Hi there!"))>>,
                 <<Msg(RoleUser, Text("Hello")), Msg(RoleSystem, BeBrief),
                   Msg(RoleAssistant, Text("Hi there!"))>>},
     CreatedAt : {0},
     UpdatedAt : {0},
     Metadata : {EmptyMap, [isNil |-> FALSE, kv |-> ("n" :> GoInt(1))]}]

\* what the store can hold for a session when the manager is made: nothing,
\* something undecodable, or a conversation saved earlier
StoredBefore(sessionID) ==
    {<<>>,
     SetString(<<>>, buildKey(sessionID), Undecodable),
     SetAny(<<>>, buildKey(sessionID),
            [SessionID |-> sessionID,
             Messages |-> <<Msg(RoleSystem, BeBrief), Msg(RoleUser, Text("Hello"))>>,
             CreatedAt |-> 0, UpdatedAt |-> 0,
             Metadata |-> [isNil |-> FALSE, kv |-> ("user_id" :> GoString("u0"))]])}

\* MemoryManager.LoadConversation by a single caller
Load(sessionID) ==
    /\ last' = Kept([Operation("LoadConversation", sessionID, store)
                   EXCEPT !.conversation = LoadConversation(store, sessionID, clock)])
    /\ clock' = NowAt(clock, LoadNowCalls(store, sessionID) + 1)
    /\ UNCHANGED <<store, config, histVars, clientVars, appenders, provided, callVars>>

\* MemoryManager.SaveConversation by a single caller
Save(conversation) ==
    /\ store' = SaveConversation(store, conversation, NowAt(clock, 1))
    /\ clock' = NowAt(clock, 2)
    /\ last' = Kept([Operation("SaveConversation", conversation.SessionID, store)
                   EXCEPT !.conversation = conversation])
    /\ UNCHANGED <<config, histVars, clientVars, appenders, provided, callVars>>

\* MemoryManager.DeleteConversation: the empty string is stored at the key
DeleteConversation(sessionID) ==
    /\ store' = SetString(store, buildKey(sessionID), EmptyString)
    /\ last' = Kept(Operation("DeleteConversation", sessionID, store))
    /\ UNCHANGED <<config, clock, histVars, clientVars, appenders, provided, callVars>>

\* a plausible slip: the patch replaces the metadata
MergedReplacing(metadata, patch) == [isNil |-> FALSE, kv |-> patch]

\* the metadata of SetMetadata: a nil map is made, then every key of the
\* patch is assigned
Merged(metadata, patch) ==
    LET kv == IF metadata.isNil THEN <<>> ELSE metadata.kv
    IN  [isNil |-> FALSE,
         kv |-> [k \in DOMAIN kv \cup DOMAIN patch |->
                   IF k \in DOMAIN patch THEN patch[k] ELSE kv[k]]]

\* MemoryManager.SetMetadata by a single caller: load, merge, save
SetMetadata(sessionID, patch) ==
    /\ LET conversation == LoadConversation(store, sessionID, clock)
           k == LoadNowCalls(store, sessionID)
           merged == [conversation EXCEPT !.Metadata = Merged(@, patch)]
       IN  /\ store' = SaveConversation(store, merged, NowAt(clock, k + 1))
           /\ clock' = NowAt(clock, k + 2)
    /\ last' = Kept([Operation("SetMetadata", sessionID, store) EXCEPT !.patch = patch])
    /\ UNCHANGED <<config, histVars, clientVars, appenders, provided, callVars>>

ManagerInit ==
    /\ \E one \in StoredBefore(<<"s", "1">>), two \in StoredBefore(<<"s", "1", ":", "2">>) :
          store = one @@ two
    /\ config \in [MaxMessages : ManagerCaps]
    /\ clock = 0
    /\ appended = [s \in ManagerSessions |-> <<>>]
    /\ singly = TRUE
    /\ lastSave = [s \in ManagerSessions |-> <<>>]
    /\ last = [NoOperation EXCEPT !.kept = TRUE]
    /\ NoClient

\* the caller has operations left to call
MayCall == last.count < MaxOps

ManagerNext ==
    \/ \E s \in ManagerSessions : MayCall /\ Load(s)
    \/ \E conversation \in SavedConversations : MayCall /\ Save(conversation)
    \/ MayCall /\ last.op = "LoadConversation" /\ Save(last.conversation)
    \/ \E s \in ManagerSessions : MayCall /\ DeleteConversation(s)
    \/ \E s \in ManagerSessions, patch \in Patches : MayCall /\ SetMetadata(s, patch)
    \/ \E s \in ManagerSessions :
          MayCall /\ CreateConversationWithSystemMessage(s, BeBrief)
    \/ \E s \in ManagerSessions, r \in AppendRoles :
          MayCall /\ AppendMessage(s, NextMessages(s, <<r>>)[1])
    \/ \E s \in ManagerSessions :
          MayCall /\ AppendMessages(s, NextMessages(s, <<RoleUser, RoleSystem>>))

SpecManager == ManagerInit /\ [][ManagerNext]_vars

----------------------------------------------------------------------------
(* The provider adapters and the HTTP clients under them: one call in a run *)

\* messages in the longest canonical request
MaxRequest == 5
\* content blocks in the longest vendor response
MaxBlocks == 2

ErrEmptyModelText == "model cannot be empty"
ErrEmptyMessagesText == "messages cannot be empty"
ErrRequestFailed == "request failed"

\* the sequences over S of length up to n
SeqsUpTo(S, n) == UNION {[1..k -> S] : k \in 0..n}

\* the messages of a canonical request with the given roles: contents that
\* tell the messages apart
RequestMessages(roles) ==
    [i \in 1..Len(roles) |-> Msg(roles[i], <<roles[i], i>>)]

\* provider.ChatCompletionRequest: the model and the messages; the sampling
\* parameters are copied verbatim and are left out
ChatCompletionRequests ==
    {[Model |-> model, Messages |-> RequestMessages(roles)] :
        model \in {<<>>, Model},
        roles \in SeqsUpTo({RoleSystem, RoleUser, RoleAssistant, RoleTool},
                           MaxRequest)}

\* anthropic.Content of a response, by its type and place
ContentBlock(type, at) ==
    [Type |-> type, Text |-> IF type = "text" THEN <<"text", at>> ELSE <<>>]

\* what the vendor can answer to a request that was sent: a failure, or a
\* response with some content blocks
AnthropicReplies ==
    {[err |-> ErrRequestFailed, response |-> <<>>]} \cup
    {[err |-> NoError,
      response |-> [ID |-> MessageID, Type |-> "message", Role |-> RoleAssistant,
                    Content |-> [i \in 1..Len(types) |-> ContentBlock(types[i], i)],
                    Model |-> Model, StopReason |-> StopReason]] :
        types \in SeqsUpTo({"text", "tool_use"}, MaxBlocks)}

\* what a client call gives: the error, the HTTP requests it sent, the response
Returned(err, sent, response) == [err |-> err, sent |-> sent, response |-> response]

\* anthropic Client.CreateCompletion: the request is validated, then sent
AnthropicCreateCompletionOf(request, reply) ==
    IF request.Model = <<>> THEN Returned(ErrEmptyModelText, <<>>, <<>>)
    ELSE IF Len(request.Messages) = 0 THEN Returned(ErrEmptyMessagesText, <<>>, <<>>)
    ELSE Returned(reply.err, <<request>>, reply.response)

\* a plausible slip: the first system message is kept, not the last
RECURSIVE ConvertMessagesKeepingFirst(_, _)
ConvertMessagesKeepingFirst(msgs, converted) ==
    IF msgs = <<>> THEN converted
    ELSE LET msg == Head(msgs)
         IN  ConvertMessagesKeepingFirst(Tail(msgs),
                CASE msg.Role = RoleSystem ->
                       IF converted.systemMessage = <<>>
                       THEN [converted EXCEPT !.systemMessage = msg.Content]
                       ELSE converted
                  [] msg.Role \in {RoleUser, RoleAssistant} ->
                       [converted EXCEPT !.Messages = Append(@, Msg(msg.Role, msg.Content))]
                  [] OTHER -> converted)

\* the range loop of Provider.CreateChatCompletion over req.Messages: a
\* system message sets systemMessage, a user or assistant message is
\* appended, any other is skipped
RECURSIVE ConvertMessages(_, _)
ConvertMessages(msgs, converted) ==
    IF msgs = <<>> THEN converted
    ELSE LET msg == Head(msgs)
         IN  ConvertMessages(Tail(msgs),
                CASE msg.Role = RoleSystem ->
                       [converted EXCEPT !.systemMessage = msg.Content]
                  [] msg.Role \in {RoleUser, RoleAssistant} ->
                       [converted EXCEPT !.Messages = Append(@, Msg(msg.Role, msg.Content))]
                  [] OTHER -> converted)

\* the anthropic.Request the adapter builds from a canonical request
AnthropicRequest(req) ==
    LET converted == ConvertMessages(req.Messages,
                                     [systemMessage |-> <<>>, Messages |-> <<>>])
    IN  [Model |-> req.Model,
         Messages |-> converted.Messages,
         System |-> IF converted.systemMessage # <<>>
                    THEN converted.systemMessage ELSE <<>>]

\* the canonical content the adapter takes from a response: the text of the
\* first block when that block is of type text
ResponseContent(resp) ==
    IF Len(resp.Content) > 0 /\ resp.Content[1].Type = "text"
    THEN resp.Content[1].Text
    ELSE <<>>

\* the provider.ChatCompletionResponse the adapter builds from a response
ChatCompletionResponse(resp) ==
    [ID |-> resp.ID, Model |-> resp.Model,
     Choices |-> <<[Index |-> 0,
                    Message |-> Msg(RoleAssistant, ResponseContent(resp)),
                    FinishReason |-> resp.StopReason]>>,
     ProviderMetadata |->
        [anthropic_type |-> resp.Type, anthropic_role |-> resp.Role,
         anthropic_content |-> resp.Content,
         anthropic_stop_reason |-> resp.StopReason]]

\* no call of the run has returned yet
NotCalled == outcome.op = "none"

\* anthropic Provider.CreateChatCompletion: convert, call the client, convert back
AnthropicCreateChatCompletion ==
    /\ NotCalled
    /\ \E req \in ChatCompletionRequests, reply \in AnthropicReplies :
        LET call == AnthropicCreateCompletionOf(AnthropicRequest(req), reply)
        IN  /\ http' = http \o call.sent
            /\ outcome' =
                 [NoOutcome EXCEPT
                    !.op = "anthropic.Provider.CreateChatCompletion",
                    !.request = req,
                    !.reply = IF call.sent = <<>> THEN <<>> ELSE reply,
                    !.err = call.err,
                    !.response = IF call.err = NoError
                                 THEN ChatCompletionResponse(call.response)
                                 ELSE <<>>]
            /\ UNCHANGED <<memVars, histVars, clientVars, mgrVars, provided>>

\* what a vendor can answer to a request for a stream, or to a request of
\* another dialect: a failure, or a success
Replies ==
    {[err |-> ErrRequestFailed, response |-> <<>>],
     [err |-> NoError, response |-> <<"ok">>]}

\* the request the OpenAI, Ollama and X.AI adapters build: the model, and
\* every message with its role and content
CopiedRequest(req) ==
    [Model |-> req.Model,
     Messages |-> [i \in 1..Len(req.Messages) |->
                      Msg(req.Messages[i].Role, req.Messages[i].Content)]]

\* anthropic Client.CreateCompletionStream: the same checks, then the request
AnthropicCreateCompletionStreamOf(request, reply) ==
    IF request.Model = <<>> THEN Returned(ErrEmptyModelText, <<>>, <<>>)
    ELSE IF Len(request.Messages) = 0 THEN Returned(ErrEmptyMessagesText, <<>>, <<>>)
    ELSE Returned(reply.err, <<request>>, reply.response)

\* a plausible slip: the request is sent before it is looked at
OpenAICreateCompletionSendingFirst(request, reply) ==
    IF reply.err # NoError THEN Returned(reply.err, <<request>>, <<>>)
    ELSE IF request.Model = <<>> THEN Returned(ErrEmptyModelText, <<request>>, <<>>)
    ELSE IF Len(request.Messages) = 0
         THEN Returned(ErrEmptyMessagesText, <<request>>, <<>>)
    ELSE Returned(reply.err, <<request>>, reply.response)

\* openai Client.CreateCompletion: the request is validated, then sent
OpenAICreateCompletionOf(request, reply) ==
    IF request.Model = <<>> THEN Returned(ErrEmptyModelText, <<>>, <<>>)
    ELSE IF Len(request.Messages) = 0 THEN Returned(ErrEmptyMessagesText, <<>>, <<>>)
    ELSE Returned(reply.err, <<request>>, reply.response)

\* openai Client.CreateCompletionStream
OpenAICreateCompletionStreamOf(request, reply) ==
    IF request.Model = <<>> THEN Returned(ErrEmptyModelText, <<>>, <<>>)
    ELSE IF Len(request.Messages) = 0 THEN Returned(ErrEmptyMessagesText, <<>>, <<>>)
    ELSE Returned(reply.err, <<request>>, reply.response)

\* ollama Client.CreateCompletion
OllamaCreateCompletionOf(request, reply) ==
    IF request.Model = <<>> THEN Returned(ErrEmptyModelText, <<>>, <<>>)
    ELSE IF Len(request.Messages) = 0 THEN Returned(ErrEmptyMessagesText, <<>>, <<>>)
    ELSE Returned(reply.err, <<request>>, reply.response)

\* ollama Client.CreateCompletionStream
OllamaCreateCompletionStreamOf(request, reply) ==
    IF request.Model = <<>> THEN Returned(ErrEmptyModelText, <<>>, <<>>)
    ELSE IF Len(request.Messages) = 0 THEN Returned(ErrEmptyMessagesText, <<>>, <<>>)
    ELSE Returned(reply.err, <<request>>, reply.response)

\* xai Client.CreateCompletion, as the specification describes the adapters
XAICreateCompletionOf(request, reply) ==
    IF request.Model = <<>> THEN Returned(ErrEmptyModelText, <<>>, <<>>)
    ELSE IF Len(request.Messages) = 0 THEN Returned(ErrEmptyMessagesText, <<>>, <<>>)
    ELSE Returned(reply.err, <<request>>, reply.response)

\* xai Client.CreateCompletionStream, as the specification describes the adapters
XAICreateCompletionStreamOf(request, reply) ==
    IF request.Model = <<>> THEN Returned(ErrEmptyModelText, <<>>, <<>>)
    ELSE IF Len(request.Messages) = 0 THEN Returned(ErrEmptyMessagesText, <<>>, <<>>)
    ELSE Returned(reply.err, <<request>>, reply.response)

\* anthropic Provider.CreateChatCompletionStream
AnthropicCreateChatCompletionStream ==
    /\ NotCalled
    /\ \E req \in ChatCompletionRequests, reply \in Replies :
        LET call == AnthropicCreateCompletionStreamOf(AnthropicRequest(req), reply)
        IN  /\ http' = http \o call.sent
            /\ outcome' =
                 [NoOutcome EXCEPT
                    !.op = "anthropic.Provider.CreateChatCompletionStream",
                    !.request = req,
                    !.reply = IF call.sent = <<>> THEN <<>> ELSE reply,
                    !.err = call.err,
                    !.response = IF call.err = NoError
                                 THEN call.response
                                 ELSE <<>>]
            /\ UNCHANGED <<memVars, histVars, clientVars, mgrVars, provided>>

\* choices in a response of the OpenAI API
MaxChoices == 2

\* the goroutine panics: the call returns neither a response nor an error
PanicIndexOutOfRange == "panic: runtime error: index out of range [0] with length 0"

\* a choice of the vendor's response, and one of the canonical response
OpenAIChoice(at) ==
    [Message |-> Msg(RoleAssistant, ContentOf(at)), FinishReason |-> <<"stop">>]
CanonicalChoice(index, message, finishReason) ==
    [Index |-> index, Message |-> message, FinishReason |-> finishReason]

\* what the OpenAI API can answer: a failure, or a response that decodes,
\* with any number of choices
OpenAIReplies ==
    {[err |-> ErrRequestFailed, response |-> <<>>]}
    \cup {[err |-> NoError,
           response |-> [Choices |-> [i \in 1..n |-> OpenAIChoice(i)]]] :
             n \in 0..MaxChoices}

\* "Convert back to unified format" of openai Provider.CreateChatCompletion:
\* one choice, made of resp.Choices[0]
OpenAIChatCompletionResponse(resp) ==
    IF Len(resp.Choices) = 0
    THEN [err |-> PanicIndexOutOfRange, response |-> <<>>]
    ELSE [err |-> NoError,
          response |->
             [Choices |-> <<CanonicalChoice(0,
                                            Msg(resp.Choices[1].Message.Role,
                                                resp.Choices[1].Message.Content),
                                            resp.Choices[1].FinishReason)>>]]

\* openai Provider.CreateChatCompletion
OpenAICreateChatCompletion ==
    /\ NotCalled
    /\ \E req \in ChatCompletionRequests, reply \in OpenAIReplies :
        LET call == OpenAICreateCompletionOf(CopiedRequest(req), reply)
            converted == IF call.err = NoError
                         THEN OpenAIChatCompletionResponse(call.response)
                         ELSE [err |-> call.err, response |-> <<>>]
        IN  /\ http' = http \o call.sent
            /\ outcome' =
                 [NoOutcome EXCEPT
                    !.op = "openai.Provider.CreateChatCompletion",
                    !.request = req,
                    !.reply = IF call.sent = <<>> THEN <<>> ELSE reply,
                    !.err = converted.err,
                    !.response = converted.response]
            /\ UNCHANGED <<memVars, histVars, clientVars, mgrVars, provided>>

\* openai Provider.CreateChatCompletionStream
OpenAICreateChatCompletionStream ==
    /\ NotCalled
    /\ \E req \in ChatCompletionRequests, reply \in Replies :
        LET call == OpenAICreateCompletionStreamOf(CopiedRequest(req), reply)
        IN  /\ http' = http \o call.sent
            /\ outcome' =
                 [NoOutcome EXCEPT
                    !.op = "openai.Provider.CreateChatCompletionStream",
                    !.request = req,
                    !.reply = IF call.sent = <<>> THEN <<>> ELSE reply,
                    !.err = call.err,
                    !.response = IF call.err = NoError
                                 THEN call.response
                                 ELSE <<>>]
            /\ UNCHANGED <<memVars, histVars, clientVars, mgrVars, provided>>

\* ollama Provider.CreateChatCompletion
OllamaCreateChatCompletion ==
    /\ NotCalled
    /\ \E req \in ChatCompletionRequests, reply \in Replies :
        LET call == OllamaCreateCompletionOf(CopiedRequest(req), reply)
        IN  /\ http' = http \o call.sent
            /\ outcome' =
                 [NoOutcome EXCEPT
                    !.op = "ollama.Provider.CreateChatCompletion",
                    !.request = req,
                    !.reply = IF call.sent = <<>> THEN <<>> ELSE reply,
                    !.err = call.err,
                    !.response = IF call.err = NoError
                                 THEN call.response
                                 ELSE <<>>]
            /\ UNCHANGED <<memVars, histVars, clientVars, mgrVars, provided>>

\* ollama Provider.CreateChatCompletionStream
OllamaCreateChatCompletionStream ==
    /\ NotCalled
    /\ \E req \in ChatCompletionRequests, reply \in Replies :
        LET call == OllamaCreateCompletionStreamOf(CopiedRequest(req), reply)
        IN  /\ http' = http \o call.sent
            /\ outcome' =
                 [NoOutcome EXCEPT
                    !.op = "ollama.Provider.CreateChatCompletionStream",
                    !.request = req,
                    !.reply = IF call.sent = <<>> THEN <<>> ELSE reply,
                    !.err = call.err,
                    !.response = IF call.err = NoError
                                 THEN call.response
                                 ELSE <<>>]
            /\ UNCHANGED <<memVars, histVars, clientVars, mgrVars, provided>>

\* xai Provider.CreateChatCompletion
XAICreateChatCompletion ==
    /\ NotCalled
    /\ \E req \in ChatCompletionRequests, reply \in Replies :
        LET call == XAICreateCompletionOf(CopiedRequest(req), reply)
        IN  /\ http' = http \o call.sent
            /\ outcome' =
                 [NoOutcome EXCEPT
                    !.op = "xai.Provider.CreateChatCompletion",
                    !.request = req,
                    !.reply = IF call.sent = <<>> THEN <<>> ELSE reply,
                    !.err = call.err,
                    !.response = IF call.err = NoError
                                 THEN call.response
                                 ELSE <<>>]
            /\ UNCHANGED <<memVars, histVars, clientVars, mgrVars, provided>>

\* xai Provider.CreateChatCompletionStream
XAICreateChatCompletionStream ==
    /\ NotCalled
    /\ \E req \in ChatCompletionRequests, reply \in Replies :
        LET call == XAICreateCompletionStreamOf(CopiedRequest(req), reply)
        IN  /\ http' = http \o call.sent
            /\ outcome' =
                 [NoOutcome EXCEPT
                    !.op = "xai.Provider.CreateChatCompletionStream",
                    !.request = req,
                    !.reply = IF call.sent = <<>> THEN <<>> ELSE reply,
                    !.err = call.err,
                    !.response = IF call.err = NoError
                                 THEN call.response
                                 ELSE <<>>]
            /\ UNCHANGED <<memVars, histVars, clientVars, mgrVars, provided>>

AdaptersInit ==
    /\ store = <<>>
    /\ config = [MaxMessages |-> DefaultMaxMessages]
    /\ clock = 0
    /\ appended = <<>>
    /\ singly = TRUE
    /\ lastSave = <<>>
    /\ client = [hasHook |-> FALSE, hasMemory |-> FALSE, kvsMayFail |-> FALSE]
    /\ calls = <<>>
    /\ events = <<>>
    /\ streams = <<>>
    /\ started = 0
    /\ seeds = 0
    /\ last = NoOperation
    /\ appenders = <<>>
    /\ provided = NoProvided
    /\ outcome = NoOutcome
    /\ http = <<>>

AdaptersNext ==
    \/ AnthropicCreateChatCompletion
    \/ AnthropicCreateChatCompletionStream
    \/ OpenAICreateChatCompletion
    \/ OpenAICreateChatCompletionStream
    \/ OllamaCreateChatCompletion
    \/ OllamaCreateChatCompletionStream
    \/ XAICreateChatCompletion
    \/ XAICreateChatCompletionStream

SpecAdapters == AdaptersInit /\ [][AdaptersNext]_vars

----------------------------------------------------------------------------
(* NewClient, and the conversation operations of the client it returns *)

\* conversation operations on one client with memory
MaxClientOps == 1

ProviderNameOpenAI == "openai"
ProviderNameAnthropic == "anthropic"
ProviderNameBedrock == "bedrock"
ProviderNameOllama == "ollama"
ProviderNameGemini == "gemini"
ProviderNameXAI == "xai"
ProviderNames ==
    {ProviderNameOpenAI, ProviderNameAnthropic, ProviderNameBedrock,
     ProviderNameOllama, ProviderNameGemini, ProviderNameXAI}

ErrUnsupportedProvider == "unsupported provider"
ErrEmptyAPIKey == "API key cannot be empty"
ErrAWSConfig == "failed to load AWS config"
ErrMemoryNotConfigured == "memory not configured"

\* the nil values of the interfaces and pointers of ClientConfig
NilProvider == "nil provider"
NilKVS == "nil kvs"
NilMemoryConfig == [isNil |-> TRUE, MaxMessages |-> 0]

\* ClientConfig: the name, the key, the store, the memory configuration and
\* the injected provider; a name outside the enum stands for the unknown ones
ClientConfigs ==
    [Provider : ProviderNames \cup {"other"},
     APIKey : {<<>>, <<"k">>},
     Memory : {NilKVS, "kvs"},
     MemoryConfig : {NilMemoryConfig, [isNil |-> FALSE, MaxMessages |-> 2]},
     CustomProvider : {NilProvider, "mock"}]

\* what config.LoadDefaultConfig of the AWS SDK can return to bedrock.New
AWSResults == {NoError, ErrAWSConfig}

\* what a provider constructor gives: the provider, or nil and an error
Constructed(prov) == [prov |-> prov, err |-> NoError]
Failed(err) == [prov |-> NilProvider, err |-> err]

newOpenAIProvider(cfg) ==
    IF cfg.APIKey = <<>> THEN Failed(ErrEmptyAPIKey) ELSE Constructed(ProviderNameOpenAI)

newAnthropicProvider(cfg) ==
    IF cfg.APIKey = <<>> THEN Failed(ErrEmptyAPIKey) ELSE Constructed(ProviderNameAnthropic)

\* bedrock.NewProvider(config.Region): the key is not read
newBedrockProvider(cfg, aws) ==
    IF aws # NoError THEN Failed(aws) ELSE Constructed(ProviderNameBedrock)

newOllamaProvider(cfg) == Constructed(ProviderNameOllama)

newGeminiProvider(cfg) ==
    IF cfg.APIKey = <<>> THEN Failed(ErrEmptyAPIKey) ELSE Constructed(ProviderNameGemini)

newXAIProvider(cfg) ==
    IF cfg.APIKey = <<>> THEN Failed(ErrEmptyAPIKey) ELSE Constructed(ProviderNameXAI)

\* the switch of NewClient on config.Provider
BuiltIn(cfg, aws) ==
    CASE cfg.Provider = ProviderNameOpenAI -> newOpenAIProvider(cfg)
      [] cfg.Provider = ProviderNameAnthropic -> newAnthropicProvider(cfg)
      [] cfg.Provider = ProviderNameBedrock -> newBedrockProvider(cfg, aws)
      [] cfg.Provider = ProviderNameOllama -> newOllamaProvider(cfg)
      [] cfg.Provider = ProviderNameGemini -> newGeminiProvider(cfg)
      [] cfg.Provider = ProviderNameXAI -> newXAIProvider(cfg)
      [] OTHER -> Failed(ErrUnsupportedProvider)

\* a plausible slip: the built-in providers are tried before the injected one
ResolvedByNameFirst(cfg, aws) ==
    IF BuiltIn(cfg, aws).err # NoError THEN BuiltIn(cfg, aws)
    ELSE IF cfg.CustomProvider # NilProvider THEN Constructed(cfg.CustomProvider)
    ELSE BuiltIn(cfg, aws)

\* the provider NewClient uses: the injected one if there is one
Resolved(cfg, aws) ==
    IF cfg.CustomProvider # NilProvider
    THEN Constructed(cfg.CustomProvider)
    ELSE BuiltIn(cfg, aws)

\* a plausible slip: the memory manager is made whether or not there is a store
MemoryWiredAlways(cfg) == TRUE

\* if config.Memory != nil
MemoryWired(cfg) == cfg.Memory # NilKVS

\* the configuration NewMemoryManager is given
MemoryConfigOf(cfg) ==
    IF ~cfg.MemoryConfig.isNil
    THEN [MaxMessages |-> cfg.MemoryConfig.MaxMessages]
    ELSE [MaxMessages |-> DefaultMaxMessages]

\* the *ChatClient NewClient returns: nil, or a client with its provider
NilChatClient == [isNil |-> TRUE, provider |-> NilProvider]
ChatClient(prov) == [isNil |-> FALSE, provider |-> prov]

\* NewClient
NewClient ==
    /\ NotCalled
    /\ \E cfg \in ClientConfigs, aws \in AWSResults :
        LET r == Resolved(cfg, aws)
        IN  /\ outcome' = [NoOutcome EXCEPT
                             !.op = "NewClient",
                             !.request = cfg,
                             !.err = r.err,
                             !.response = IF r.err # NoError THEN NilChatClient
                                          ELSE ChatClient(r.prov),
                             !.built = r.err = NoError]
            /\ client' = IF r.err # NoError THEN client
                         ELSE [client EXCEPT !.hasMemory = MemoryWired(cfg)]
            /\ config' = IF r.err = NoError /\ MemoryWired(cfg)
                         THEN MemoryConfigOf(cfg) ELSE config
            /\ UNCHANGED <<store, clock, histVars, calls, events, streams, started,
                           seeds, mgrVars, provided, http>>

\* the caller holds a client and may call an operation on it
MayUse == outcome.built /\ (HasMemory => last.count < MaxClientOps)

\* MemoryManager.GetMessages by a single caller
GetConversationMessages(sessionID) ==
    /\ last' = Kept([Operation("GetMessages", sessionID, store)
                   EXCEPT !.messages = GetMessages(store, sessionID)])
    /\ clock' = NowAt(clock, LoadNowCalls(store, sessionID) + 1)
    /\ UNCHANGED <<store, config, histVars, clientVars, appenders, provided, callVars>>

\* ChatClient.LoadConversation
ClientLoadConversation ==
    \E s \in ManagerSessions :
        /\ MayUse
        /\ IF ~HasMemory
           THEN /\ outcome' = [outcome EXCEPT !.op = "LoadConversation",
                                              !.sessionID = s,
                                              !.err = ErrMemoryNotConfigured]
                /\ UNCHANGED <<memVars, histVars, clientVars, mgrVars, provided, http>>
           ELSE Load(s)

\* ChatClient.SaveConversation
ClientSaveConversation ==
    \E conversation \in SavedConversations :
        /\ MayUse
        /\ IF ~HasMemory
           THEN /\ outcome' = [outcome EXCEPT !.op = "SaveConversation",
                                              !.sessionID = conversation.SessionID,
                                              !.err = ErrMemoryNotConfigured]
                /\ UNCHANGED <<memVars, histVars, clientVars, mgrVars, provided, http>>
           ELSE Save(conversation)

\* ChatClient.AppendMessage
ClientAppendMessage ==
    \E s \in ManagerSessions, r \in AppendRoles :
        /\ MayUse
        /\ IF ~HasMemory
           THEN /\ outcome' = [outcome EXCEPT !.op = "AppendMessage",
                                              !.sessionID = s,
                                              !.err = ErrMemoryNotConfigured]
                /\ UNCHANGED <<memVars, histVars, clientVars, mgrVars, provided, http>>
           ELSE AppendMessage(s, NextMessages(s, <<r>>)[1])

\* ChatClient.GetConversationMessages
ClientGetConversationMessages ==
    \E s \in ManagerSessions :
        /\ MayUse
        /\ IF ~HasMemory
           THEN /\ outcome' = [outcome EXCEPT !.op = "GetConversationMessages",
                                              !.sessionID = s,
                                              !.err = ErrMemoryNotConfigured]
                /\ UNCHANGED <<memVars, histVars, clientVars, mgrVars, provided, http>>
           ELSE GetConversationMessages(s)

\* ChatClient.CreateConversationWithSystemMessage
ClientCreateConversationWithSystemMessage ==
    \E s \in ManagerSessions :
        /\ MayUse
        /\ IF ~HasMemory
           THEN /\ outcome' = [outcome EXCEPT
                                 !.op = "CreateConversationWithSystemMessage",
                                 !.sessionID = s,
                                 !.err = ErrMemoryNotConfigured]
                /\ UNCHANGED <<memVars, histVars, clientVars, mgrVars, provided, http>>
           ELSE CreateConversationWithSystemMessage(s, BeBrief)

\* ChatClient.DeleteConversation
ClientDeleteConversation ==
    \E s \in ManagerSessions :
        /\ MayUse
        /\ IF ~HasMemory
           THEN /\ outcome' = [outcome EXCEPT !.op = "DeleteConversation",
                                              !.sessionID = s,
                                              !.err = ErrMemoryNotConfigured]
                /\ UNCHANGED <<memVars, histVars, clientVars, mgrVars, provided, http>>
           ELSE DeleteConversation(s)

\* no client yet; the store the caller may hand to NewClient holds one of
\* the things a store can hold
FacadeInit ==
    /\ store \in StoredBefore(<<"s", "1">>)
    /\ config = [MaxMessages |-> DefaultMaxMessages]
    /\ clock = 0
    /\ appended = [s \in ManagerSessions |-> <<>>]
    /\ singly = TRUE
    /\ lastSave = [s \in ManagerSessions |-> <<>>]
    /\ last = [NoOperation EXCEPT !.kept = TRUE]
    /\ client = [hasHook |-> FALSE, hasMemory |-> FALSE, kvsMayFail |-> FALSE]
    /\ calls = <<>>
    /\ events = <<>>
    /\ streams = <<>>
    /\ started = 0
    /\ seeds = 0
    /\ appenders = <<>>
    /\ provided = NoProvided
    /\ outcome = NoOutcome
    /\ http = <<>>

FacadeNext ==
    \/ NewClient
    \/ ClientLoadConversation
    \/ ClientSaveConversation
    \/ ClientAppendMessage
    \/ ClientGetConversationMessages
    \/ ClientCreateConversationWithSystemMessage
    \/ ClientDeleteConversation

SpecFacade == FacadeInit /\ [][FacadeNext]_vars

----------------------------------------------------------------------------
(* Properties of the message limit *)

Systems(msgs) == SelectSeq(msgs, IsSystem)
Others(msgs) == SelectSeq(msgs, IsOther)
LastN(msgs, n) == SubSeq(msgs, Len(msgs) - n + 1, Len(msgs))
FirstN(msgs, n) == SubSeq(msgs, 1, n)
Stored(sessionID) == GetMessages(store, sessionID)
Saved(sessionID) == appended[sessionID] # <<>>

\* C1: with MaxMessages > 0, after any sequence of AppendMessage and
\* AppendMessages calls on a session the stored list has at most MaxMessages
\* messages, and the system messages of the list handed to the last save are
\* all stored still, in order, or, when they alone exceed MaxMessages, the
\* stored list is the first MaxMessages of them.
C1_LimitHoldsAndSystemsKept ==
    \A s \in SessionIDs :
        (config.MaxMessages > 0 /\ Saved(s)) =>
            /\ Len(Stored(s)) <= config.MaxMessages
            /\ IF Len(Systems(lastSave[s])) <= config.MaxMessages
               THEN Systems(Stored(s)) = Systems(lastSave[s])
               ELSE Stored(s) = FirstN(Systems(lastSave[s]), config.MaxMessages)

\* C2: a save that prunes with headroom > 0 stores the system messages in
\* their order followed by the last headroom other messages in their order;
\* and with MaxMessages = 5, a system message and then the user messages A to
\* J appended one at a time, a load returns [system, G, H, I, J].
C2_PruneKeepsSystemsThenMostRecent ==
    \A s \in SessionIDs :
        LET pre == lastSave[s]
            headroom == config.MaxMessages - Len(Systems(pre))
        IN  /\ (/\ Saved(s)
                /\ config.MaxMessages > 0
                /\ Len(pre) > config.MaxMessages
                /\ headroom > 0)
               => Stored(s) = Systems(pre) \o LastN(Others(pre), headroom)
            /\ (/\ config.MaxMessages = 5
                /\ singly
                /\ appended[s] = [i \in 1..11 |->
                      Msg(IF i = 1 THEN RoleSystem ELSE RoleUser, ContentOf(i))])
               => Stored(s) = <<Msg(RoleSystem, <<"S">>), Msg(RoleUser, <<"G">>),
                                Msg(RoleUser, <<"H">>), Msg(RoleUser, <<"I">>),
                                Msg(RoleUser, <<"J">>)>>

\* the scenario of C2 has run: eleven single appends, the save of the last
\* one pruning six user messages away from one system and ten user messages
C2_Witness ==
    \E s \in SessionIDs :
        /\ config.MaxMessages = 5
        /\ singly
        /\ Len(appended[s]) = 11
        /\ Len(Systems(appended[s])) = 1
        /\ IsSystem(appended[s][1])
        /\ Len(lastSave[s]) = 6
        /\ Len(Stored(s)) = 5

----------------------------------------------------------------------------
(* Properties of the memory-aware calls *)

EventsOf(c) == SelectSeq(events, LAMBDA e : e.call = c)
HookEventsOf(c) == SelectSeq(events, LAMBDA e : e.call = c /\ e.to = "hook")
ProviderEventsOf(c) == SelectSeq(events, LAMBDA e : e.call = c /\ e.to = "provider")
Ops(es) == [i \in 1..Len(es) |-> es[i].op]
IsPrefix(a, b) == Len(a) <= Len(b) /\ a = SubSeq(b, 1, Len(a))

WithMemory(c) ==
    /\ calls[c].kind = "CreateChatCompletionWithMemory"
    /\ client.hasMemory

\* C3: CreateChatCompletionWithMemory calls the provider with the stored
\* messages followed by req.Messages; when it returns, the stored conversation
\* has grown by req.Messages and the message of the first choice if the
\* provider succeeded with at least one choice, and is as it was otherwise.
\* With [system "Be brief"] stored, [user "Hi"] sent and "Hello" answered,
\* exactly [system, user, assistant] is stored.
C3_MergedRequestAndConditionalAppend ==
    \A c \in DOMAIN calls :
        WithMemory(c) =>
            LET call == calls[c]
            IN  /\ \A i \in 1..Len(ProviderEventsOf(c)) :
                      ProviderEventsOf(c)[i].sent = call.storedBefore \o call.req
                /\ call.pc = "done" =>
                      /\ Len(ProviderEventsOf(c)) = 1
                      /\ IF call.err = NoError /\ Len(call.resp.Choices) >= 1
                         THEN /\ call.storedAfter =
                                    call.storedBefore \o call.req
                                        \o <<call.resp.Choices[1].Message>>
                              /\ Len(call.saved) = 1
                         ELSE /\ call.storedAfter = call.storedBefore
                              /\ call.saved = <<>>
                /\ (/\ call.pc = "done"
                    /\ call.storedBefore = <<Msg(RoleSystem, <<"Be brief">>)>>
                    /\ call.req = <<Msg(RoleUser, <<"Hi">>)>>
                    /\ call.err = NoError
                    /\ call.resp.Choices = <<[Message |-> Msg(RoleAssistant, <<"Hello">>)]>>)
                   => call.storedAfter = <<Msg(RoleSystem, <<"Be brief">>),
                                           Msg(RoleUser, <<"Hi">>),
                                           Msg(RoleAssistant, <<"Hello">>)>>

\* the scenario of C3 has run
C3_Witness ==
    \E c \in DOMAIN calls :
        /\ WithMemory(c)
        /\ calls[c].pc = "done"
        /\ calls[c].storedBefore = <<Msg(RoleSystem, <<"Be brief">>)>>
        /\ calls[c].req = <<Msg(RoleUser, <<"Hi">>)>>
        /\ calls[c].err = NoError
        /\ Len(calls[c].resp.Choices) = 1
        /\ Len(Stored(calls[c].sessionID)) = 3

----------------------------------------------------------------------------
(* Properties of the memory-aware stream *)

RECURSIVE Concat(_)
Concat(parts) == IF parts = <<>> THEN <<>> ELSE Head(parts) \o Concat(Tail(parts))

\* what the stream had assembled when it first ended
AssembledAtEnd(s) == Concat(s.atEnd)
\* the append the claims speak of, as the record of an AppendMessages call
TheAppend(s, save) ==
    /\ save.messages = Append(s.reqMessages, Msg(RoleAssistant, AssembledAtEnd(s)))
    /\ save.after = save.before \o save.messages

\* C4: whatever the order of the Recv and Close calls on a memory-aware
\* stream, AppendMessages is called at most once for it; a stream with
\* content read to end-of-stream and closed has stored the request messages
\* and the assistant message once.
C4_SavedAtMostOnce ==
    \A c \in DOMAIN streams :
        LET s == streams[c]
        IN  s.exists =>
              /\ Len(s.saves) <= 1
              /\ (s.endedBy = "EOF" /\ s.closes >= 1 /\ AssembledAtEnd(s) # <<>>) =>
                    /\ Len(s.saves) = 1
                    /\ TheAppend(s, s.saves[1])
                    /\ seeds = 0 =>
                          Stored(s.sessionID) =
                              s.storedAtOpen \o s.reqMessages
                                  \o <<Msg(RoleAssistant, AssembledAtEnd(s))>>

\* a stream with content was read to end-of-stream, closed, read and closed
\* again
C4_Witness ==
    \E c \in DOMAIN streams :
        /\ streams[c].exists
        /\ streams[c].endedBy = "EOF"
        /\ streams[c].closes >= 2
        /\ streams[c].recvs >= 3
        /\ streams[c].responseBuffer # <<>>
        /\ Len(streams[c].saves) = 1

\* C5 as stated: when Recv reports end-of-stream the request messages and the
\* assistant message assembled from the deltas are appended; when Close comes
\* first the same append happens if content was buffered.
C5_AppendAtEveryEndOfStream ==
    \A c \in DOMAIN streams :
        LET s == streams[c]
        IN  /\ (s.exists /\ s.endedBy = "EOF") =>
                  Len(s.saves) >= 1 /\ TheAppend(s, s.saves[1])
            /\ (s.exists /\ s.endedBy = "Close" /\ AssembledAtEnd(s) # <<>>) =>
                  Len(s.saves) >= 1 /\ TheAppend(s, s.saves[1])

\* C5, amended: at the first end of a memory-aware stream, a Recv reporting
\* end-of-stream or a Close, the request messages followed by one assistant
\* message, the in-order concatenation of the deltas delivered so far, are
\* appended to the stored conversation if that concatenation is not empty; if
\* it is empty nothing is appended, then or later.
C5_AppendAtFirstEndIfContent ==
    \A c \in DOMAIN streams :
        LET s == streams[c]
        IN  (s.exists /\ s.endedBy # "none") =>
              IF AssembledAtEnd(s) # <<>>
              THEN Len(s.saves) = 1 /\ TheAppend(s, s.saves[1])
              ELSE s.saves = <<>>

\* two fragments were delivered, then end-of-stream, and the append was made
C5_Witness ==
    \E c \in DOMAIN streams :
        /\ streams[c].exists
        /\ streams[c].endedBy = "EOF"
        /\ Len(AssembledAtEnd(streams[c])) = 2
        /\ Len(streams[c].saves) = 1

\* C6: from its creation until a Recv that reports end-of-stream or a Close,
\* a memory-aware stream has made no AppendMessages call, and no Recv on it
\* changes the stored conversation of its session, whatever chunks or other
\* errors it returns.
C6_NoWriteMidStream ==
    /\ [](\A c \in DOMAIN streams :
            (streams[c].exists /\ streams[c].endedBy = "none") =>
                streams[c].saves = <<>>)
    /\ [][\A c \in DOMAIN streams :
            (/\ streams[c].exists
             /\ streams'[c].exists
             /\ streams'[c].endedBy = "none"
             /\ streams'[c].recvs # streams[c].recvs)
            => Stored(streams[c].sessionID)' = Stored(streams[c].sessionID)]_vars

\* a stream has delivered content and returned an error other than
\* end-of-stream, and has not ended
C6_Witness ==
    \E c \in DOMAIN streams :
        /\ streams[c].exists
        /\ streams[c].endedBy = "none"
        /\ streams[c].responseBuffer # <<>>
        /\ streams[c].failed >= 1
        /\ streams[c].recvs >= 3
        /\ Stored(streams[c].sessionID) = streams[c].storedAtOpen

----------------------------------------------------------------------------
(* Properties of the observability hook *)

Observed(c) == client.hasHook /\ calls[c].pc # "idle"

\* C7: a CreateChatCompletion with a hook installed makes one BeforeRequest,
\* then one provider call with the context BeforeRequest returned, then one
\* AfterResponse with the same LLMCallInfo and the provider's response and
\* error, and returns the provider's response and error unchanged, whether
\* the provider succeeded or failed.
C7_BeforeProviderAfter ==
    \A c \in DOMAIN calls :
        (Observed(c) /\ calls[c].kind = "CreateChatCompletion") =>
            LET es == EventsOf(c)
            IN  /\ IsPrefix(Ops(es),
                     <<"BeforeRequest", "CreateChatCompletion", "AfterResponse">>)
                /\ Len(es) >= 1 => es[1].to = "hook" /\ es[1].sent = calls[c].req
                /\ Len(es) >= 2 =>
                      /\ es[2].to = "provider"
                      /\ es[2].ctx = es[1].outCtx
                      /\ es[2].sent = calls[c].req
                /\ Len(es) >= 3 =>
                      /\ es[3].to = "hook"
                      /\ es[3].info = es[1].info
                      /\ es[3].sent = calls[c].req
                      /\ es[3].resp = es[2].resp
                      /\ es[3].err = es[2].err
                /\ calls[c].pc = "done" =>
                      /\ Len(es) = 3
                      /\ calls[c].ret.resp = es[2].resp
                      /\ calls[c].ret.err = es[2].err

\* two calls ran at once and returned, one answered and one failed
C7_Witness ==
    \E c, d \in DOMAIN calls :
        /\ client.hasHook
        /\ calls[c].pc = "done" /\ calls[c].ret.err = NoError
        /\ calls[c].ret.resp.Choices # <<>>
        /\ calls[d].pc = "done" /\ calls[d].ret.err = ErrProvider
        /\ Len(events) >= 6
        /\ events[1].call # events[2].call

\* C8: a CreateChatCompletionStream with a hook installed makes one
\* BeforeRequest before the provider call and then exactly one of WrapStream,
\* when the provider returned a stream, and AfterResponse with a nil response
\* and the error, when it failed.
C8_BeforeThenWrapOrAfter ==
    \A c \in DOMAIN calls :
        (Observed(c) /\ calls[c].inner = "stream" /\ ~calls[c].mem) =>
            LET es == EventsOf(c)
            IN  /\ Len(es) <= 3
                /\ IsPrefix(SubSeq(Ops(es), 1, IF Len(es) < 2 THEN Len(es) ELSE 2),
                            <<"BeforeRequest", "CreateChatCompletionStream">>)
                /\ Len(es) >= 1 => es[1].to = "hook"
                /\ Len(es) >= 2 => es[2].to = "provider"
                /\ Len(es) >= 3 =>
                      /\ es[3].to = "hook"
                      /\ es[3].info = es[1].info
                      /\ IF es[2].err = NoError
                         THEN /\ es[3].op = "WrapStream"
                              /\ es[3].stream = es[2].stream
                         ELSE /\ es[3].op = "AfterResponse"
                              /\ es[3].resp = NilResp
                              /\ es[3].err = es[2].err
                /\ calls[c].pc = "done" =>
                      /\ Len(es) = 3
                      /\ calls[c].ret.err = es[2].err
                      /\ es[2].err = NoError => calls[c].ret.stream = es[3].outStream

\* a stream call returned the stream the hook wrapped
C8_Witness ==
    \E c \in DOMAIN calls :
        /\ client.hasHook
        /\ calls[c].kind = "CreateChatCompletionStream"
        /\ calls[c].pc = "done"
        /\ calls[c].ret.err = NoError
        /\ Len(HookEventsOf(c)) = 2
        /\ HookEventsOf(c)[2].op = "WrapStream"

\* C9: with a hook installed, CreateChatCompletionWithMemory makes one
\* BeforeRequest and then one AfterResponse, CreateChatCompletionStreamWithMemory
\* one BeforeRequest and then one WrapStream or AfterResponse; the hook is
\* given the stored messages followed by the new ones; and the memory-aware
\* stream wraps the stream WrapStream returned.
C9_MemoryVariantsReachHook ==
    \A c \in DOMAIN calls :
        (/\ client.hasHook
         /\ calls[c].kind \in {"CreateChatCompletionWithMemory",
                               "CreateChatCompletionStreamWithMemory"}) =>
            LET hs == HookEventsOf(c)
                call == calls[c]
            IN  /\ \A i \in 1..Len(hs) : hs[i].sent = call.storedBefore \o call.req
                /\ call.pc = "before" => hs = <<>>
                /\ call.pc \in {"provider", "after"} => Ops(hs) = <<"BeforeRequest">>
                /\ call.pc \in {"save", "done"} =>
                      /\ Len(hs) = 2
                      /\ hs[1].op = "BeforeRequest"
                      /\ hs[2].info = hs[1].info
                      /\ hs[2].op = IF call.inner = "sync" \/ call.err # NoError
                                    THEN "AfterResponse" ELSE "WrapStream"
                /\ streams[c].exists =>
                      /\ hs[2].op = "WrapStream"
                      /\ hs[2].stream = ProviderEventsOf(c)[1].stream
                      /\ streams[c].inner = hs[2].outStream
                      /\ streams[c].inner # hs[2].stream

\* a memory-aware stream was returned for a session with stored messages
C9_Witness ==
    \E c \in DOMAIN calls :
        /\ client.hasHook
        /\ calls[c].mem
        /\ calls[c].storedBefore # <<>>
        /\ streams[c].exists
        /\ Len(HookEventsOf(c)) = 2

AllDone == \A c \in DOMAIN calls : calls[c].pc = "done"
HookEvents == SelectSeq(events, LAMBDA e : e.to = "hook")
\* what a hook recording (CallID, phase) has recorded
Recorded ==
    [i \in 1..Len(HookEvents) |->
        <<HookEvents[i].info.CallID,
          IF HookEvents[i].op = "BeforeRequest" THEN "before" ELSE "after">>]
RecordedAt(id, phase) == {i \in 1..Len(Recorded) : Recorded[i] = <<id, phase>>}
RecordedIDs == {Recorded[i][1] : i \in 1..Len(Recorded)}

\* C10 as stated: n concurrent calls leave exactly n distinct CallIDs
\* recorded, each with one "before" and one "after", the "before" first.
C10_ExactlyNDistinctCallIDs ==
    AllDone =>
        /\ Cardinality(RecordedIDs) = NCalls
        /\ \A id \in RecordedIDs :
              /\ Cardinality(RecordedAt(id, "before")) = 1
              /\ Cardinality(RecordedAt(id, "after")) = 1
              /\ \A i \in RecordedAt(id, "before"), j \in RecordedAt(id, "after") : i < j

\* C10, amended: of n concurrent calls each is recorded with one "before" and
\* then one "after", both with the call's own CallID, so 2n records in all;
\* and the CallIDs of two calls differ whenever the random reads of both
\* succeeded and gave different bytes.
C10_PairedAndDistinctWhenReadsDiffer ==
    /\ \A c \in DOMAIN calls :
          Observed(c) =>
              LET hs == HookEventsOf(c)
              IN  /\ IsPrefix(Ops(hs), <<"BeforeRequest", "AfterResponse">>)
                  /\ Len(hs) >= 1
                  /\ calls[c].pc = "done" => Len(hs) = 2
                  /\ \A i \in 1..Len(hs) : hs[i].info.CallID = calls[c].info.CallID
    /\ AllDone => Len(Recorded) = 2 * NCalls
    /\ \A c, d \in DOMAIN calls :
          (/\ c # d /\ Observed(c) /\ Observed(d)
           /\ calls[c].rand[1].ok /\ calls[d].rand[1].ok
           /\ calls[c].rand[1].b # calls[d].rand[1].b)
          => calls[c].info.CallID # calls[d].info.CallID

\* all the calls began before any of them ended, with reads that succeeded
\* and differed, and all have returned
C10_Witness ==
    /\ AllDone
    /\ client.hasHook
    /\ \A c, d \in DOMAIN calls :
          c # d => /\ calls[c].rand[1].ok
                   /\ calls[c].rand[1].b # calls[d].rand[1].b
    /\ Cardinality(RecordedIDs) = NCalls
    /\ \A i \in 1..NCalls : Recorded[i][2] = "before"

----------------------------------------------------------------------------
(* Properties of the memory manager's operations *)

Range(f) == {f[i] : i \in DOMAIN f}

\* C11: whatever the interleaving of concurrent AppendMessages calls on one
\* session, once a call has saved, the stored list is what one of the callers
\* loaded followed by the messages of that caller; an update of another
\* caller may be missing from it, nothing else happens to the list.
C11_StoredIsOneCallersLoadPlusOwn ==
    (\E c \in DOMAIN appenders : appenders[c].rounds >= 1) =>
        \E c \in DOMAIN appenders :
            /\ appenders[c].rounds >= 1
            /\ Stored(RacedSession) =
                  appenders[c].wrote.loaded \o appenders[c].wrote.messages

\* two callers have each completed one call on a session that had a stored
\* message, and the stored list lacks the messages of one of them
C11_Witness ==
    \E c, d \in DOMAIN appenders :
        /\ c # d
        /\ appenders[c].pc = "idle" /\ appenders[c].rounds = 1
        /\ appenders[d].pc = "idle" /\ appenders[d].rounds = 1
        /\ Stored(RacedSession) =
              <<Msg(RoleSystem, BeBrief)>> \o appenders[d].wrote.messages
        /\ Range(appenders[c].wrote.messages) \cap Range(Stored(RacedSession)) = {}
        /\ appenders[c].wrote.messages # <<>>

\* the conversation a load gives before and after the last operation
Before(sessionID) == LoadConversation(last.before, sessionID, 0)
After(sessionID) == LoadConversation(store, sessionID, 0)
\* the key of a session, written out
KeyOf(sessionID) == <<"t", "e", "s", "t", ":">> \o sessionID
HeldBefore(sessionID) == KeyOf(sessionID) \in DOMAIN last.before
Appending == last.op \in {"AppendMessage", "AppendMessages"}
NoPruning(msgs) == config.MaxMessages = 0 \/ Len(msgs) <= config.MaxMessages
SameEntries(f, g) == DOMAIN f = DOMAIN g /\ \A k \in DOMAIN f : f[k] = g[k]

\* C12: LoadConversation of a session whose key is absent, or holds an
\* undecodable value or the empty string DeleteConversation writes, returns a
\* conversation with that session id, no message and an empty, non-nil
\* metadata map, and leaves the store alone; DeleteConversation leaves the
\* empty string at the key, so that loads give no message until a save.
C12_LoadOfNothingIsFresh ==
    LET s == last.sessionID
    IN  /\ last.op = "LoadConversation" => store = last.before
        /\ (/\ last.op = "LoadConversation"
            /\ \/ ~HeldBefore(s)
               \/ last.before[KeyOf(s)] = Undecodable
               \/ last.before[KeyOf(s)] = EmptyString)
           => /\ last.conversation.SessionID = s
              /\ last.conversation.Messages = <<>>
              /\ ~last.conversation.Metadata.isNil
              /\ DOMAIN last.conversation.Metadata.kv = {}
        /\ last.op = "DeleteConversation" =>
              /\ store[KeyOf(s)] = EmptyString
              /\ GetMessages(store, s) = <<>>
              /\ After(s).SessionID = s

\* a conversation with messages was deleted and then loaded
C12_Witness ==
    /\ last.op = "LoadConversation"
    /\ HeldBefore(last.sessionID)
    /\ last.before[KeyOf(last.sessionID)] = EmptyString
    /\ last.count >= 2
    /\ last.conversation.Messages = <<>>

\* C13: when AppendMessages (AppendMessage with one message) has returned and
\* no pruning applied, the stored list is the list stored before followed by
\* the new messages in their order, and the metadata and the created-at of a
\* session stored before are as they were.
C13_AppendExtendsStoredList ==
    LET s == last.sessionID
    IN  (Appending /\ NoPruning(Before(s).Messages \o last.messages)) =>
            /\ After(s).Messages = Before(s).Messages \o last.messages
            /\ SameEntries(After(s).Metadata.kv, Before(s).Metadata.kv)
            /\ (HeldBefore(s) /\ last.before[KeyOf(s)].isJSON) =>
                  After(s).CreatedAt = Before(s).CreatedAt
            /\ After(s).SessionID = s

\* two messages were appended to a stored conversation that has metadata,
\* after another operation moved the clock
C13_Witness ==
    /\ last.op = "AppendMessages"
    /\ Len(last.messages) = 2
    /\ last.count >= 2
    /\ Len(Before(last.sessionID).Messages) >= 2
    /\ DOMAIN Before(last.sessionID).Metadata.kv # {}
    /\ After(last.sessionID).UpdatedAt # Before(last.sessionID).UpdatedAt
    /\ Len(After(last.sessionID).Messages) = Len(Before(last.sessionID).Messages) + 2

\* what pruning leaves of a list, from the message-cap policy
PostPruning(msgs) ==
    LET headroom == config.MaxMessages - Len(Systems(msgs))
    IN  IF config.MaxMessages > 0 /\ Len(msgs) > config.MaxMessages
        THEN Systems(msgs) \o (IF headroom > 0 /\ Len(Others(msgs)) > headroom
                               THEN LastN(Others(msgs), headroom)
                               ELSE Others(msgs))
        ELSE msgs
\* the last operation saved what a load of the session gave
SavedWhatLoadGave ==
    /\ last.op = "SaveConversation"
    /\ \E t \in 0..MaxTime :
          last.conversation = LoadConversation(last.before, last.sessionID, t)

C15_CreateOverwrites ==
    last.op = "CreateConversationWithSystemMessage" =>
        /\ After(last.sessionID).Messages = <<Msg(RoleSystem, BeBrief)>>
        /\ After(last.sessionID).Messages = last.messages
        /\ After(last.sessionID).SessionID = last.sessionID

\* a session with messages and metadata was overwritten
C15_Witness ==
    /\ last.op = "CreateConversationWithSystemMessage"
    /\ Len(Before(last.sessionID).Messages) >= 2
    /\ DOMAIN Before(last.sessionID).Metadata.kv # {}
    /\ Len(After(last.sessionID).Messages) = 1

\* C16 as stated: after SetMetadata(s, patch) the metadata has the value of
\* the patch at every key of the patch and its previous value at every other
\* key, and the messages, within the cap, are unchanged.
C16_PatchValuesAreStored ==
    LET s == last.sessionID
    IN  last.op = "SetMetadata" =>
            /\ DOMAIN After(s).Metadata.kv =
                  DOMAIN Before(s).Metadata.kv \cup DOMAIN last.patch
            /\ \A k \in DOMAIN last.patch : After(s).Metadata.kv[k] = last.patch[k]
            /\ \A k \in DOMAIN Before(s).Metadata.kv \ DOMAIN last.patch :
                  After(s).Metadata.kv[k] = Before(s).Metadata.kv[k]
            /\ NoPruning(Before(s).Messages) =>
                  After(s).Messages = Before(s).Messages

\* the value a load gives for a value that was saved: a string as it was, a
\* number as a float64
AsLoaded(x) == IF x.t = "string" THEN x ELSE [t |-> "float64", v |-> x.v]

\* C16, amended: after SetMetadata(s, patch) the metadata has, at every key
\* of the patch, the value of the patch as the store's JSON encoding gives it
\* back (a string unchanged, a number as a float64 of the same value), and
\* its previous value at every other key; the messages, within the cap, are
\* unchanged; of two patches in sequence the later one wins at a common key.
C16_PatchMergedUpToEncoding ==
    LET s == last.sessionID
    IN  last.op = "SetMetadata" =>
            /\ DOMAIN After(s).Metadata.kv =
                  DOMAIN Before(s).Metadata.kv \cup DOMAIN last.patch
            /\ \A k \in DOMAIN last.patch :
                  After(s).Metadata.kv[k] = AsLoaded(last.patch[k])
            /\ \A k \in DOMAIN Before(s).Metadata.kv \ DOMAIN last.patch :
                  After(s).Metadata.kv[k] = Before(s).Metadata.kv[k]
            /\ NoPruning(Before(s).Messages) =>
                  After(s).Messages = Before(s).Messages

\* two patches with a common key were applied in sequence to a session with
\* messages, the later one bringing a new key too
C16_Witness ==
    /\ last.op = "SetMetadata"
    /\ last.count >= 2
    /\ Before(last.sessionID).Messages # <<>>
    /\ "user_id" \in DOMAIN Before(last.sessionID).Metadata.kv
    /\ Before(last.sessionID).Metadata.kv["user_id"] = GoString("u1")
    /\ DOMAIN last.patch = {"user_id", "n"}
    /\ After(last.sessionID).Metadata.kv["user_id"] = GoString("u2")

\* C17: the key of a session is the prefix, one colon and the session id, and
\* an operation on a session leaves every other key of the store as it was:
\* present or absent as before, and with the same value.
C17_OnlyOwnKeyTouched ==
    /\ \A s \in ManagerSessions : buildKey(s) = KeyOf(s)
    /\ \A s, t \in ManagerSessions : s # t => buildKey(s) # buildKey(t)
    /\ last.op # "none" =>
          \A k \in DOMAIN store \cup DOMAIN last.before :
              k # KeyOf(last.sessionID) =>
                  /\ k \in DOMAIN store
                  /\ k \in DOMAIN last.before
                  /\ store[k] = last.before[k]

\* an operation changed what is stored for one session while the other one
\* held a conversation
C17_Witness ==
    \E s, t \in ManagerSessions :
        /\ s # t
        /\ last.sessionID = s
        /\ KeyOf(s) \in DOMAIN store
        /\ KeyOf(s) \in DOMAIN last.before
        /\ store[KeyOf(s)] # last.before[KeyOf(s)]
        /\ KeyOf(t) \in DOMAIN store
        /\ Len(GetMessages(store, t)) >= 2

\* C18: with MaxMessages = 0 the stored list is the list of all the messages
\* appended, in the order of their insertion.
C18_NoCapKeepsEverything ==
    \A s \in SessionIDs :
        (config.MaxMessages = 0 /\ Saved(s)) => Stored(s) = appended[s]

\* with MaxMessages = 0, more than MaxCap messages were appended, a system
\* message after a user message among them
C18_Witness ==
    \E s \in SessionIDs :
        /\ config.MaxMessages = 0
        /\ Len(appended[s]) > MaxCap
        /\ \E i, j \in 1..Len(appended[s]) :
              i < j /\ IsOther(appended[s][i]) /\ IsSystem(appended[s][j])
        /\ Len(Stored(s)) = Len(appended[s])

----------------------------------------------------------------------------
(* Properties of a client whose store's writes may fail *)

\* the call saved, and the save failed
SaveFailed(c) == calls[c].pc = "done" /\ calls[c].saveErr # NoError

\* C19: a failing save never masks a success: when the provider succeeded,
\* CreateChatCompletionWithMemory returns the provider's response and a nil
\* error whether AppendMessages failed or not; and every Recv and every Close
\* of a memory-aware stream returns exactly what the wrapped stream returned.
C19_SaveFailureNeverMasksSuccess ==
    \A c \in DOMAIN calls :
        /\ (/\ calls[c].kind = "CreateChatCompletionWithMemory"
            /\ calls[c].mem
            /\ calls[c].pc = "done"
            /\ calls[c].err = NoError)
           => /\ calls[c].ret.resp = calls[c].resp
              /\ ~calls[c].ret.resp.isNil
              /\ calls[c].ret.err = NoError
        /\ streams[c].recvRet = streams[c].recvGot
        /\ streams[c].closeRet = streams[c].closeGot
        /\ streams[c].recvs > 0 => Len(streams[c].recvRet) = 1
        /\ streams[c].closes > 0 => Len(streams[c].closeRet) = 1

\* the provider answered with a choice, the save failed and nothing was
\* stored, and the call returned
C19_Witness ==
    \E c \in DOMAIN calls :
        /\ calls[c].kind = "CreateChatCompletionWithMemory"
        /\ calls[c].mem
        /\ SaveFailed(c)
        /\ Len(calls[c].resp.Choices) > 0
        /\ calls[c].storedAfter = calls[c].storedBefore

----------------------------------------------------------------------------
(* Properties of the providers' streams *)

\* C20: on every stream, a Recv issued after Close has returned fails with
\* the stream-closed error, and returns no chunk and no end-of-stream.
C20_RecvAfterCloseIsStreamClosed ==
    \A i \in 1..Len(provided.afterClose) :
        /\ provided.afterClose[i].err = ErrStreamClosed
        /\ provided.afterClose[i].chunk = NoChunk

\* C21: the first Close closes the body of the response, whether or not the
\* end of the stream was reached; every later Close returns success and does
\* not close the body again.
C21_CloseIsIdempotent ==
    provided.closes >= 1 =>
        /\ provided.bodyClosed
        /\ provided.bodyCloses = 1
        /\ \A i \in 2..Len(provided.closeResults) : provided.closeResults[i] = NoError

\* the results of the Recv calls made before any Close
OpenResults == SelectSeq(provided.results, LAMBDA r : r.open)

\* C22: once a Recv has returned end-of-stream, every later Recv on the
\* unclosed stream returns end-of-stream too, whatever is left on the body.
C22_EndOfStreamIsSticky ==
    \A i, j \in 1..Len(OpenResults) :
        (i < j /\ OpenResults[i].got.err = EOF) => OpenResults[j].got.err = EOF

\* the lines before the first line of a kind, all of them if there is none
RECURSIVE Before1st(_, _)
Before1st(lines, kind) ==
    IF lines = <<>> \/ Head(lines).kind = kind THEN <<>>
    ELSE <<Head(lines)>> \o Before1st(Tail(lines), kind)
\* the data lines with a well-formed payload before the first [DONE]
PayloadsBeforeDone ==
    SelectSeq(Before1st(provided.wire, "done"), LAMBDA l : l.kind = "chunk")

\* C23: on an OpenAI-compatible body the successive Recv calls return the
\* well-formed payloads of the data lines before the first [DONE], in wire
\* order, blank lines and malformed payloads giving neither chunk nor error,
\* and the Recv after the last of them returns end-of-stream.
C23_ChunksAreDataBeforeDone ==
    provided.dialect = "openai" =>
        \A i \in 1..Len(OpenResults) :
            /\ i <= Len(PayloadsBeforeDone) =>
                  OpenResults[i].got = Received(<<PayloadsBeforeDone[i]>>, NoError)
            /\ i = Len(PayloadsBeforeDone) + 1 =>
                  OpenResults[i].got = Received(NoChunk, EOF)

\* two data events and [DONE]: two chunks, end-of-stream at the third Recv
C23_Witness ==
    /\ provided.dialect = "openai"
    /\ provided.wire = Lines(<<"chunk", "chunk", "done">>)
    /\ Len(OpenResults) = 3
    /\ OpenResults[1].got.chunk = <<Line("chunk", 1)>>
    /\ OpenResults[2].got.chunk = <<Line("chunk", 2)>>
    /\ OpenResults[3].got.err = EOF

\* the events of the wire the adapter has a chunk for
EventsWithChunk ==
    SelectSeq(provided.wire,
              LAMBDA e : e.kind \in {"message_start", "content_block_delta",
                                     "message_delta", "message_stop"})
\* a message_start is among the first n of these events
StartedBy(n) == \E k \in 1..n : EventsWithChunk[k].kind = "message_start"

\* C24: the Anthropic adapter gives, event by event and in order, a chunk
\* with no choice for message_start, a chunk with one choice whose delta has
\* role assistant and the text for content_block_delta, a chunk whose choice
\* has the stop reason as finish reason for message_delta, a chunk with no
\* choice for message_stop, and then end-of-stream; the chunks carry the id
\* and the model of the message_start before them; events of another type
\* give no chunk.
C24_AnthropicEventsToChunks ==
    provided.dialect = "anthropic" =>
        \A i \in 1..Len(OpenResults) :
            LET got == OpenResults[i].got
            IN  /\ i = Len(EventsWithChunk) + 1 => got = Received(NoChunk, EOF)
                /\ i <= Len(EventsWithChunk) =>
                      LET e == EventsWithChunk[i]
                          c == got.chunk[1]
                      IN  /\ got.err = NoError
                          /\ Len(got.chunk) = 1
                          /\ c.event = e
                          /\ StartedBy(i) => c.ID = <<"msg_1">> /\ c.Model = <<"m">>
                          /\ e.kind \in {"message_start", "message_stop"} =>
                                c.Choices = <<>>
                          /\ e.kind = "content_block_delta" =>
                                /\ Len(c.Choices) = 1
                                /\ c.Choices[1].Delta =
                                      <<[Role |-> "assistant", Content |-> ContentOf(e.at)]>>
                                /\ c.Choices[1].FinishReason = <<>>
                          /\ e.kind = "message_delta" =>
                                /\ Len(c.Choices) = 1
                                /\ c.Choices[1].FinishReason = <<"end_turn">>

\* the events of one message, a ping among them, were read to the end: five
\* chunks and end-of-stream
C24_Witness ==
    /\ provided.dialect = "anthropic"
    /\ provided.wire = Lines(OneMessage)
    /\ Len(OpenResults) = 6
    /\ OpenResults[1].got.chunk[1].Choices = <<>>
    /\ Len(OpenResults[2].got.chunk[1].Choices) = 1
    /\ OpenResults[3].got.chunk[1].event.at = 4
    /\ OpenResults[5].got.chunk[1].ID = <<"msg_1">>
    /\ OpenResults[6].got.err = EOF

\* C25: on an Ollama body of n JSON lines, n successive Recv calls return one
\* chunk per line, in wire order, none skipped, and the next one returns
\* end-of-stream, however the lines are grouped into reads.
C25_OneChunkPerLine ==
    (/\ provided.dialect = "ollama"
     /\ \A k \in 1..Len(provided.wire) : provided.wire[k].kind = "chunk")
    => \A i \in 1..Len(OpenResults) :
          /\ i <= Len(provided.wire) =>
                OpenResults[i].got = Received(<<provided.wire[i]>>, NoError)
          /\ i = Len(provided.wire) + 1 => OpenResults[i].got = Received(NoChunk, EOF)

----------------------------------------------------------------------------
(* Properties of the Anthropic adapter *)

IsUserOrAssistant(m) == m.Role \in {RoleUser, RoleAssistant}

\* the adapter's synchronous call returned and its request went on the wire
AnthropicSent ==
    /\ outcome.op = "anthropic.Provider.CreateChatCompletion"
    /\ http # <<>>

\* the example request: system S1, user U1, system S2, assistant A1, user U2
ExampleRoles == <<RoleSystem, RoleUser, RoleSystem, RoleAssistant, RoleUser>>

\* C26: when the canonical request handed to the Anthropic adapter has at
\* least one system message, the request on the wire has the content of the
\* last system message as its top-level system field, has no system-role
\* entry in its messages, and has the user and assistant messages in their
\* original relative order.
C26_LastSystemMessageOnTop ==
    (AnthropicSent /\ Systems(outcome.request.Messages) # <<>>) =>
        LET systems == Systems(outcome.request.Messages)
            wire == http[Len(http)]
        IN  /\ wire.System = systems[Len(systems)].Content
            /\ Systems(wire.Messages) = <<>>
            /\ wire.Messages = SelectSeq(outcome.request.Messages, IsUserOrAssistant)

C26_Witness ==
    /\ AnthropicSent
    /\ outcome.request.Messages = RequestMessages(ExampleRoles)
    /\ http[1].System = <<RoleSystem, 3>>
    /\ http[1].Messages = <<Msg(RoleUser, <<RoleUser, 2>>),
                            Msg(RoleAssistant, <<RoleAssistant, 4>>),
                            Msg(RoleUser, <<RoleUser, 5>>)>>

\* the texts of the text-type blocks, concatenated in order
RECURSIVE TextOfBlocks(_)
TextOfBlocks(blocks) ==
    IF blocks = <<>> THEN <<>>
    ELSE (IF Head(blocks).Type = "text" THEN Head(blocks).Text ELSE <<>>)
         \o TextOfBlocks(Tail(blocks))

\* the adapter's synchronous call returned a response
AnthropicAnswered ==
    /\ outcome.op = "anthropic.Provider.CreateChatCompletion"
    /\ outcome.err = NoError

\* C27: the canonical content the Anthropic adapter returns is the
\* concatenation, in order, of the text of all text-type blocks of the
\* response and of those only, and the full block list is kept under the
\* provider-metadata key anthropic_content.
C27_ContentIsAllTextBlocks ==
    AnthropicAnswered =>
        /\ outcome.response.Choices[1].Message.Content
              = TextOfBlocks(outcome.reply.response.Content)
        /\ outcome.response.ProviderMetadata.anthropic_content
              = outcome.reply.response.Content

----------------------------------------------------------------------------
(* Properties of NewClient and of the client without memory *)

\* the providers whose constructors require a key
KeyedProviders ==
    {ProviderNameOpenAI, ProviderNameAnthropic, ProviderNameGemini, ProviderNameXAI}

\* NewClient has just returned
Constructing == outcome.op = "NewClient"

\* what NewClient does with an injected provider, with an unknown name and
\* with a keyed provider without key, and that it never returns both a
\* client and an error
ResolvedAsDocumented ==
    LET cfg == outcome.request
        injected == cfg.CustomProvider # NilProvider
    IN  /\ injected =>
              /\ outcome.err = NoError
              /\ outcome.response = ChatClient(cfg.CustomProvider)
        /\ (~injected /\ cfg.Provider \notin ProviderNames) =>
              outcome.err = ErrUnsupportedProvider
        /\ (~injected /\ cfg.Provider \in KeyedProviders /\ cfg.APIKey = <<>>) =>
              outcome.err = ErrEmptyAPIKey
        /\ (~injected /\ cfg.Provider = ProviderNameOllama) =>
              /\ outcome.err = NoError
              /\ outcome.response = ChatClient(ProviderNameOllama)
        /\ outcome.err # NoError <=> outcome.response.isNil

\* C28 as stated: NewClient uses an injected provider as it is and without
\* error, whatever the name and the key; otherwise it fails with
\* UnsupportedProvider for an unknown name; otherwise OpenAI, Anthropic,
\* Gemini and X.AI fail with EmptyAPIKey when the key is empty, and Ollama
\* and Bedrock are constructed without a key; no client comes with an error.
C28_NewClientResolves ==
    Constructing =>
        /\ ResolvedAsDocumented
        /\ (outcome.request.CustomProvider = NilProvider
            /\ outcome.request.Provider = ProviderNameBedrock) =>
              /\ outcome.err = NoError
              /\ outcome.response = ChatClient(ProviderNameBedrock)

\* C28, amended: the same, except that Bedrock, which does not read the key,
\* is constructed unless loading the AWS configuration fails, and NewClient
\* then fails with that error.
C28_NewClientResolvesUnlessAWSFails ==
    Constructing =>
        /\ ResolvedAsDocumented
        /\ (outcome.request.CustomProvider = NilProvider
            /\ outcome.request.Provider = ProviderNameBedrock) =>
              \/ /\ outcome.err = NoError
                 /\ outcome.response = ChatClient(ProviderNameBedrock)
              \/ outcome.err = ErrAWSConfig

C28_Witness ==
    /\ Constructing
    /\ outcome.request.CustomProvider = NilProvider
    /\ outcome.request.Provider = ProviderNameBedrock
    /\ outcome.request.APIKey = <<>>
    /\ outcome.err = NoError
    /\ outcome.response = ChatClient(ProviderNameBedrock)

\* the conversation operations of the client
ConversationOps ==
    {"LoadConversation", "SaveConversation", "AppendMessage",
     "GetConversationMessages", "CreateConversationWithSystemMessage",
     "DeleteConversation"}

\* the client NewClient returned was given a store
StoreSupplied == outcome.request.Memory # NilKVS

\* C29: the client NewClient returns has memory exactly when a key/value
\* store was supplied; on a client built without one HasMemory is false, and
\* every conversation operation (LoadConversation, SaveConversation,
\* AppendMessage, GetConversationMessages,
\* CreateConversationWithSystemMessage, DeleteConversation) returns an error
\* and changes nothing: not the store, not the configuration, not the clock.
C29_NoStoreNoMemory ==
    /\ [](outcome.built => (HasMemory <=> StoreSupplied))
    /\ [][(outcome.built /\ ~StoreSupplied) =>
            /\ outcome'.op \in ConversationOps
            /\ outcome'.err # NoError
            /\ UNCHANGED <<memVars, histVars, clientVars, mgrVars, provided, http>>]_vars

C29_Witness ==
    /\ outcome.built
    /\ ~StoreSupplied
    /\ ~HasMemory
    /\ outcome.op = "DeleteConversation"
    /\ outcome.err = ErrMemoryNotConfigured
    /\ store # <<>>

----------------------------------------------------------------------------
(* Properties of the validation at the adapter boundary *)

\* the synchronous and the streaming call of the four HTTP adapters
AdapterOps ==
    {"openai.Provider.CreateChatCompletion",
     "openai.Provider.CreateChatCompletionStream",
     "anthropic.Provider.CreateChatCompletion",
     "anthropic.Provider.CreateChatCompletionStream",
     "ollama.Provider.CreateChatCompletion",
     "ollama.Provider.CreateChatCompletionStream",
     "xai.Provider.CreateChatCompletion",
     "xai.Provider.CreateChatCompletionStream"}

\* the errors of request validation
ValidationErrors == {ErrEmptyModelText, ErrEmptyMessagesText}

\* C30: a call of the OpenAI, Anthropic, Ollama or X.AI adapter, synchronous
\* or streaming, with an empty model or an empty message list returns a
\* request-validation error, and no HTTP request is sent.
C30_EmptyRequestsAreRejected ==
    (/\ outcome.op \in AdapterOps
     /\ \/ outcome.request.Model = <<>>
        \/ outcome.request.Messages = <<>>)
    => /\ outcome.err \in ValidationErrors
       /\ http = <<>>

C30_Witness ==
    /\ outcome.op = "openai.Provider.CreateChatCompletionStream"
    /\ outcome.request.Model # <<>>
    /\ outcome.request.Messages = <<>>
    /\ outcome.err = ErrEmptyMessagesText
    /\ http = <<>>

----------------------------------------------------------------------------
(* Properties of a stream over an empty body *)

\* C31: on a stream whose body ends at once, the first Recv delivers a
\* terminal chunk (no error), and the Recv after it signals end-of-stream.
C31_EmptyBodyGivesTerminalChunk ==
    (provided.dialect \in Dialects /\ provided.wire = <<>>) =>
        /\ Len(OpenResults) >= 1 =>
              /\ OpenResults[1].got.err = NoError
              /\ OpenResults[1].got.chunk # NoChunk
        /\ Len(OpenResults) >= 2 => OpenResults[2].got.err = EOF

----------------------------------------------------------------------------
(* Properties of the message limit without headroom *)

\* C32: a save that prunes with headroom = MaxMessages - (number of system
\* messages) <= 0 stores system messages only: the first MaxMessages system
\* messages of the list it was handed, in their order, and no other message.
C32_NoHeadroomKeepsSystemsOnly ==
    \A s \in SessionIDs :
        LET pre == lastSave[s]
            headroom == config.MaxMessages - Len(Systems(pre))
        IN  (/\ Saved(s)
             /\ config.MaxMessages > 0
             /\ Len(pre) > config.MaxMessages
             /\ headroom <= 0)
            => Stored(s) = FirstN(Systems(pre), config.MaxMessages)

----------------------------------------------------------------------------
(* Properties of the end of an Anthropic stream *)

\* C33: on an Anthropic stream, once a Recv has returned the chunk of the
\* message_stop event, every later Recv returns end-of-stream, whatever
\* events follow message_stop on the wire.
C33_EndOfStreamAfterMessageStop ==
    provided.dialect = "anthropic" =>
        \A i, j \in 1..Len(OpenResults) :
            (/\ i < j
             /\ OpenResults[i].got.err = NoError
             /\ OpenResults[i].got.chunk[1].event.kind = "message_stop")
            => OpenResults[j].got = Received(NoChunk, EOF)

----------------------------------------------------------------------------
(* Properties of Recv and Close racing on one memory-aware stream *)

\* C34: when Close runs on a memory-aware stream while a Recv on the same
\* stream observes end-of-stream, the assembled conversation is appended to
\* the store at most once.
C34_RacingCloseSavesOnce ==
    (/\ DOMAIN streams = {Shared}
     /\ calls["Recv"].got.err = EOF)
    => Len(streams[Shared].saves) <= 1


----------------------------------------------------------------------------
\* C35: the message-cap pruning of SaveConversation is idempotent: applied to
\* a list it has already pruned it returns the same list, so saving a loaded
\* conversation again (AppendMessages with no messages, SetMetadata) leaves
\* the stored messages as they are, in the same order.
Decodes(st, sessionID) == ~GetAny(st, buildKey(sessionID)).err

C35_PruningIsIdempotent ==
    /\ \A s \in ManagerSessions :
          Decodes(store, s) =>
              /\ ApplyMessageLimit(config.MaxMessages, Stored(s)) = Stored(s)
              /\ GetMessages(AppendMessagesTo(store, s, <<>>, clock).store, s)
                     = Stored(s)
    /\ (last.op = "SetMetadata" /\ Decodes(last.before, last.sessionID))
          => After(last.sessionID).Messages = Before(last.sessionID).Messages

\* SetMetadata has saved again a list that was pruned and is still longer
\* than the cap, as its system messages leave no headroom
C35_Witness ==
    /\ last.op = "SetMetadata"
    /\ Decodes(last.before, last.sessionID)
    /\ config.MaxMessages > 0
    /\ Len(Before(last.sessionID).Messages) > config.MaxMessages
    /\ Len(Systems(After(last.sessionID).Messages)) >= config.MaxMessages
    /\ Len(Others(After(last.sessionID).Messages)) >= 1


\* C36: after any sequence of operations of the manager on any sessions,
\* LoadConversation(s) returns a conversation whose SessionID is s, so an
\* AppendMessage(s, m) that follows, also one right after
\* DeleteConversation(s), writes under the key of s and under no other key.
ChangedKeys(st, to) ==
    {k \in DOMAIN st \cup DOMAIN to :
        ~(k \in DOMAIN st /\ k \in DOMAIN to /\ st[k] = to[k])}

C36_LoadedSessionIsTheOneAsked ==
    /\ \A s \in ManagerSessions :
          /\ LoadConversation(store, s, clock).SessionID = s
          /\ \A r \in AppendRoles :
                ChangedKeys(store,
                            AppendMessagesTo(store, s, <<Msg(r, Text("m"))>>,
                                             clock).store) = {KeyOf(s)}
    /\ last.op = "LoadConversation" => last.conversation.SessionID = last.sessionID
    /\ last.op = "AppendMessage" =>
          /\ ChangedKeys(last.before, store) = {KeyOf(last.sessionID)}
          /\ After(last.sessionID).SessionID = last.sessionID

\* AppendMessage(s, m) was called right after DeleteConversation(s), while
\* the other session held a conversation
C36_Witness ==
    \E s, t \in ManagerSessions :
        /\ s # t
        /\ last.op = "AppendMessage"
        /\ last.sessionID = s
        /\ KeyOf(s) \in DOMAIN last.before
        /\ last.before[KeyOf(s)] = EmptyString
        /\ Len(After(s).Messages) = 1
        /\ KeyOf(t) \in DOMAIN store
        /\ Len(GetMessages(store, t)) >= 2


----------------------------------------------------------------------------
(* anthropic.Stream.Recv line by line: the body is a sequence of server-sent
   records, each closed by an empty line; a record may lack its event: line
   or its data: line *)

\* records in a body
MaxRecords == 3

EventLine(type) == [kind |-> "event", type |-> type, json |-> FALSE]
DataLine(type) == [kind |-> "data", type |-> type, json |-> TRUE]
BlankLine == [kind |-> "blank", type |-> "", json |-> FALSE]

\* a record as the API sends it, and the two incomplete ones
CompleteRecord(type) == <<EventLine(type), DataLine(type), BlankLine>>
DataOnlyRecord == <<DataLine("content_block_delta"), BlankLine>>
EventOnlyRecord == <<EventLine("content_block_delta"), BlankLine>>

SSERecords ==
    {CompleteRecord(type) : type \in {"content_block_delta", "message_stop", "ping"}}
    \cup {DataOnlyRecord, EventOnlyRecord}

\* the lines of the body, each knowing its place on the wire
Placed(lines) ==
    [i \in 1..Len(lines) |->
        [kind |-> lines[i].kind, type |-> lines[i].type, json |-> lines[i].json,
         at |-> i]]

SSEBodies ==
    {Placed(Concat(records)) : records \in SeqsUpTo(SSERecords, MaxRecords)}

\* json.Unmarshal of currentData.String(): the text of one data: line is a
\* document, the texts of two written one after the other are not
DecodesAsEvent(currentData) == Len(currentData) = 1 /\ currentData[1].json

\* the for loop of Stream.Recv from the line the scanner is at, with the
\* currentEvent and currentData of this call
RECURSIVE StreamRecvLoop(_, _, _)
StreamRecvLoop(lines, currentEvent, currentData) ==
    IF lines = <<>>
    THEN [got |-> Received(NoChunk, EOF), rest |-> <<>>]
    ELSE LET line == Head(lines)
         IN  IF line.kind = "blank"
             THEN IF currentEvent # "" /\ currentData # <<>>
                  THEN IF ~DecodesAsEvent(currentData)
                       THEN StreamRecvLoop(Tail(lines), "", <<>>)
                       ELSE IF currentData[1].type \in ReturnedEvents
                       THEN [got |-> Received(<<currentData[1]>>, NoError),
                             rest |-> Tail(lines)]
                       ELSE StreamRecvLoop(Tail(lines), "", <<>>)
                  ELSE StreamRecvLoop(Tail(lines), currentEvent, currentData)
             ELSE IF line.kind = "event"
             THEN StreamRecvLoop(Tail(lines), line.type, currentData)
             ELSE IF line.kind = "data"
             THEN StreamRecvLoop(Tail(lines), currentEvent, Append(currentData, line))
             ELSE StreamRecvLoop(Tail(lines), currentEvent, currentData)

\* anthropic.Stream.Recv: the error if s.closed, else the loop with an empty
\* currentEvent and currentData
AnthropicStreamRecv ==
    /\ MayRecv("anthropic")
    /\ LET r == StreamRecvLoop(provided.body, "", <<>>)
       IN  provided' =
              IF provided.closed
              THEN AfterRecv(Received(NoChunk, ErrStreamClosed), provided.body)
              ELSE AfterRecv(r.got, r.rest)
    /\ UNCHANGED <<memVars, histVars, clientVars, mgrVars, callVars>>

SSEInit ==
    /\ store = <<>>
    /\ config = [MaxMessages |-> DefaultMaxMessages]
    /\ clock = 0
    /\ appended = <<>>
    /\ singly = TRUE
    /\ lastSave = <<>>
    /\ client = [hasHook |-> FALSE, hasMemory |-> FALSE, kvsMayFail |-> FALSE]
    /\ calls = <<>>
    /\ events = <<>>
    /\ streams = <<>>
    /\ started = 0
    /\ seeds = 0
    /\ last = NoOperation
    /\ appenders = <<>>
    /\ \E body \in SSEBodies :
          provided = [NoProvided EXCEPT !.dialect = "anthropic", !.wire = body,
                                        !.body = body]
    /\ outcome = NoOutcome
    /\ http = <<>>

SSENext ==
    \/ AnthropicStreamRecv
    \/ AnthropicClose

SpecSSE == SSEInit /\ [][SSENext]_vars

\* the data lines of the complete records of a recognised type, in order
WellFormedReturned(wire) ==
    SelectSeq(wire,
              LAMBDA l : /\ l.kind = "data"
                         /\ l.type \in ReturnedEvents
                         /\ l.at > 1
                         /\ wire[l.at - 1].kind = "event"
                         /\ (l.at > 2 => wire[l.at - 2].kind = "blank")
                         /\ l.at < Len(wire)
                         /\ wire[l.at + 1].kind = "blank")

\* the events the calls of Recv have returned, in order
EventsReturned ==
    LET ok == SelectSeq(provided.results, LAMBDA r : r.got.err = NoError)
    IN  [i \in 1..Len(ok) |-> ok[i].got.chunk[1]]

EndReached == \E i \in 1..Len(provided.results) : provided.results[i].got.err = EOF

\* C37: the parser of the Anthropic stream drops an incomplete record (data:
\* lines without an event: line, an event: line without data) without any
\* effect on the records after it: every later well-formed record of a
\* recognised type is returned, with its own data payload and nothing else.
C37_IncompleteRecordsLeaveNoTrace ==
    (provided.dialect = "anthropic" /\ provided.closes = 0) =>
        /\ IsPrefix(EventsReturned, WellFormedReturned(provided.wire))
        /\ EndReached => EventsReturned = WellFormedReturned(provided.wire)


\* C38: the synchronous CreateChatCompletion of the OpenAI adapter returns a
\* response or an error for every vendor response that decodes, one with no
\* choices included (it never fails on the first choice that is not there),
\* and the canonical response carries every choice of the vendor, in order.
OpenAIAnswered ==
    /\ outcome.op = "openai.Provider.CreateChatCompletion"
    /\ outcome.reply # <<>>
    /\ outcome.reply.err = NoError

C38_EveryChoiceIsCarried ==
    OpenAIAnswered =>
        /\ outcome.err # PanicIndexOutOfRange
        /\ outcome.err = NoError =>
              LET vendor == outcome.reply.response.Choices
                  canonical == outcome.response.Choices
              IN  /\ Len(canonical) = Len(vendor)
                  /\ \A i \in 1..Len(vendor) :
                        /\ canonical[i].Message = vendor[i].Message
                        /\ canonical[i].FinishReason = vendor[i].FinishReason


----------------------------------------------------------------------------
(* The stream of the Gemini client: CreateCompletionStream drains the
   iterator of the vendor into two slices, Recv reads them by one index *)

\* items the iterator of the vendor yields
MaxYields == 3

ErrClientInit == "client initialization failed"
ErrCreateChat == "failed to create chat"
ErrRecvChunk == "failed to receive stream chunk"

\* an item of the iterator: a response with a candidate, a response with
\* none, or an error
Yield(kind, at) == [kind |-> kind, at |-> at]
Yields ==
    {[i \in 1..Len(kinds) |-> Yield(kinds[i], i)] :
        kinds \in SeqsUpTo({"response", "bare", "error"}, MaxYields)}

\* the requests of a caller: without a model, without messages, complete
GeminiRequests ==
    {[Model |-> <<>>, Messages |-> <<Hi>>],
     [Model |-> Model, Messages |-> <<>>],
     [Model |-> Model, Messages |-> <<Hi>>]}

NoGeminiStream ==
    [dialect |-> "gemini", created |-> FALSE, err |-> NoError, wire |-> <<>>,
     responses |-> <<>>, errors |-> <<>>, model |-> <<>>, index |-> 0,
     recvs |-> 0, closes |-> 0, results |-> <<>>]

\* the range loop over the iterator: errors to one slice, responses to the other
RECURSIVE Collected(_, _, _)
Collected(stream, responses, errors) ==
    IF stream = <<>>
    THEN [responses |-> responses, errors |-> errors]
    ELSE IF Head(stream).kind = "error"
         THEN Collected(Tail(stream), responses, Append(errors, Head(stream)))
         ELSE Collected(Tail(stream), Append(responses, Head(stream)), errors)

\* gemini Client.CreateCompletionStream
GeminiCreateCompletionStream ==
    /\ provided.dialect = "gemini"
    /\ ~provided.created
    /\ \E req \in GeminiRequests, initErr \in {NoError, ErrClientInit},
          chatErr \in {NoError, ErrCreateChat} :
          provided' =
             IF initErr # NoError
             THEN [provided EXCEPT !.created = TRUE, !.err = ErrClientInit]
             ELSE IF req.Model = <<>>
             THEN [provided EXCEPT !.created = TRUE, !.err = ErrEmptyModelText]
             ELSE IF Len(req.Messages) = 0
             THEN [provided EXCEPT !.created = TRUE, !.err = ErrEmptyMessagesText]
             ELSE IF chatErr # NoError
             THEN [provided EXCEPT !.created = TRUE, !.err = ErrCreateChat]
             ELSE LET c == Collected(provided.wire, <<>>, <<>>)
                  IN  [provided EXCEPT !.created = TRUE,
                                       !.responses = c.responses,
                                       !.errors = c.errors,
                                       !.model = req.Model]
    /\ UNCHANGED <<memVars, histVars, clientVars, mgrVars, callVars>>

\* what a Recv of the Gemini stream returns: the chunk, the error, and the
\* item of the iterator it was made of
GeminiReceived(chunk, err, of) == [chunk |-> chunk, err |-> err, of |-> of]

\* the chunk of a response: a choice with the text of the first candidate
GeminiChunk(response, model) ==
    [Model |-> model,
     Choices |-> IF response.kind = "response"
                 THEN <<DeltaChoice([Role |-> RoleAssistant,
                                     Content |-> ContentOf(response.at)])>>
                 ELSE <<>>]

\* gemini Stream.Recv
GeminiRecvOf(s) ==
    IF s.index >= Len(s.responses)
    THEN [got |-> GeminiReceived(NoChunk, EOF, 0), index |-> s.index]
    ELSE IF s.index < Len(s.errors)
    THEN [got |-> GeminiReceived(NoChunk, ErrRecvChunk, s.errors[s.index + 1].at),
          index |-> s.index + 1]
    ELSE [got |-> GeminiReceived(<<GeminiChunk(s.responses[s.index + 1], s.model)>>,
                                 NoError, s.responses[s.index + 1].at),
          index |-> s.index + 1]

GeminiRecv ==
    /\ provided.dialect = "gemini"
    /\ provided.created
    /\ provided.err = NoError
    /\ provided.recvs < Len(provided.wire) + MaxStreamRecv
    /\ LET r == GeminiRecvOf(provided)
       IN  provided' = [provided EXCEPT !.index = r.index,
                                        !.recvs = @ + 1,
                                        !.results = Append(@, r.got)]
    /\ UNCHANGED <<memVars, histVars, clientVars, mgrVars, callVars>>

\* gemini Stream.Close: nothing to close
GeminiClose ==
    /\ provided.dialect = "gemini"
    /\ provided.created
    /\ provided.err = NoError
    /\ provided.closes < MaxStreamClose
    /\ provided' = [provided EXCEPT !.closes = @ + 1]
    /\ UNCHANGED <<memVars, histVars, clientVars, mgrVars, callVars>>

GeminiInit ==
    /\ store = <<>>
    /\ config = [MaxMessages |-> DefaultMaxMessages]
    /\ clock = 0
    /\ appended = <<>>
    /\ singly = TRUE
    /\ lastSave = <<>>
    /\ client = [hasHook |-> FALSE, hasMemory |-> FALSE, kvsMayFail |-> FALSE]
    /\ calls = <<>>
    /\ events = <<>>
    /\ streams = <<>>
    /\ started = 0
    /\ seeds = 0
    /\ last = NoOperation
    /\ appenders = <<>>
    /\ \E stream \in Yields : provided = [NoGeminiStream EXCEPT !.wire = stream]
    /\ outcome = NoOutcome
    /\ http = <<>>

GeminiNext ==
    \/ GeminiCreateCompletionStream
    \/ GeminiRecv
    \/ GeminiClose

SpecGemini == GeminiInit /\ [][GeminiNext]_vars

\* the places on the iterator of the items of a kind, in order
PlacesOf(items, kinds) ==
    LET found == SelectSeq(items, LAMBDA y : y.kind \in kinds)
    IN  [i \in 1..Len(found) |-> found[i].at]

\* the places of the items the calls of Recv returned with the error err
ReturnedWith(err) ==
    LET found == SelectSeq(provided.results, LAMBDA r : r.err = err)
    IN  [i \in 1..Len(found) |-> found[i].of]

\* C39: every error the iterator of the vendor yields is returned by some
\* Recv before end-of-stream, and every response it yields is delivered as a
\* chunk exactly once, in the order of the iterator: an error makes no
\* response go missing and is never replaced by end-of-stream.
C39_ErrorsAndResponsesAllDelivered ==
    (provided.dialect = "gemini" /\ provided.created /\ provided.err = NoError) =>
        /\ IsPrefix(ReturnedWith(NoError),
                    PlacesOf(provided.wire, {"response", "bare"}))
        /\ ReturnedWith(EOF) # <<>> =>
              /\ ReturnedWith(NoError) = PlacesOf(provided.wire, {"response", "bare"})
              /\ ReturnedWith(ErrRecvChunk) = PlacesOf(provided.wire, {"error"})


----------------------------------------------------------------------------
\* what a call of CreateChatCompletion or CreateChatCompletionStream with the
\* request req lets the hook and the provider see, by the place the call has
\* reached; the kind of the call is not looked at
PlainEvents(c) ==
    LET call == calls[c]
        wrapped == HookWrapStream(call.ctx, call.info, call.req, call.stream)
        before ==
            IF client.hasHook
            THEN <<Event("hook", "BeforeRequest", c, call.info, Background, call.req,
                         NilResp, NoError, NilStream, call.ctx, NilStream)>>
            ELSE <<>>
        called ==
            IF call.pc \notin {"after", "done"} THEN <<>>
            ELSE IF call.inner = "sync"
            THEN <<Event("provider", "CreateChatCompletion", c, NoInfo, call.ctx,
                         call.req, call.resp, call.err, NilStream, Background,
                         NilStream)>>
            ELSE <<Event("provider", "CreateChatCompletionStream", c, NoInfo, call.ctx,
                         call.req, NilResp, call.err, call.stream, Background,
                         NilStream)>>
        after ==
            IF call.pc # "done" \/ ~client.hasHook THEN <<>>
            ELSE IF call.inner = "sync"
            THEN <<Event("hook", "AfterResponse", c, call.info, call.ctx, call.req,
                         call.resp, call.err, NilStream, Background, NilStream)>>
            ELSE IF call.err # NoError
            THEN <<Event("hook", "AfterResponse", c, call.info, call.ctx, call.req,
                         NilResp, call.err, NilStream, Background, NilStream)>>
            ELSE <<Event("hook", "WrapStream", c, call.info, call.ctx, call.req,
                         NilResp, NoError, call.stream, Background, wrapped)>>
    IN  before \o called \o after

\* what such a call returns
PlainReturn(c) ==
    LET call == calls[c]
    IN  IF call.inner = "sync"
        THEN [resp |-> call.resp, err |-> call.err, stream |-> NilStream]
        ELSE IF call.err # NoError
        THEN [resp |-> NilResp, err |-> call.err, stream |-> NilStream]
        ELSE [resp |-> NilResp, err |-> NoError,
              stream |-> IF client.hasHook
                         THEN HookWrapStream(call.ctx, call.info, call.req, call.stream)
                         ELSE call.stream]

BehavesAsPlain(c) ==
    LET call == calls[c]
    IN  /\ call.pc \in {"provider", "after", "done"}
        /\ ~call.mem
        /\ call.sent = call.req
        /\ call.ctx = IF client.hasHook
                      THEN HookBeforeRequest(Background, call.info, call.req)
                      ELSE Background
        /\ EventsOf(c) = PlainEvents(c)
        /\ call.pc = "done" => call.ret = PlainReturn(c)
        /\ call.saved = <<>>
        /\ streams[c] = NoStream

\* C40: on a client without memory CreateChatCompletionWithMemory and
\* CreateChatCompletionStreamWithMemory do what CreateChatCompletion and
\* CreateChatCompletionStream do: the provider gets the request of the caller
\* as it is, its result is returned, the hook is called the same way, and
\* nothing is stored.
C40_WithoutMemoryAsPlain ==
    /\ [](~client.hasMemory =>
             \A c \in DOMAIN calls : calls[c].kind # "idle" => BehavesAsPlain(c))
    /\ [][(~client.hasMemory /\ calls' # calls) => store' = store]_vars

\* on a client with a hook and no memory a memory variant has returned what
\* the provider gave
C40_Witness ==
    \E c \in DOMAIN calls :
        /\ ~client.hasMemory
        /\ client.hasHook
        /\ calls[c].kind = "CreateChatCompletionStreamWithMemory"
        /\ calls[c].pc = "done"
        /\ calls[c].err = NoError
        /\ calls[c].ret.stream # NilStream
        /\ Len(EventsOf(c)) = 3

============================================================================
